---- MODULE Spec2Model ----
(***************************************************************************)
(* A model of sentry.grouping.enhancer (src/src/sentry/grouping/enhancer/  *)
(* __init__.py): construction of Enhancements rule sets, merging of base   *)
(* rule sets, the compact base64 form and its decoding, the classifier     *)
(* pass and the assembly of the stacktrace component.                      *)
(*                                                                         *)
(* Python values are modelled as follows.  None is the string "null"; a    *)
(* tri-state boolean is one of "true", "false", "null".  An object is a    *)
(* record with one field per attribute plus `attrs`, the set of attribute  *)
(* names __init__ has assigned: reading an attribute outside `attrs`       *)
(* raises AttributeError.  A rule text is a sequence of lines and a line   *)
(* is a sequence of whitespace-separated tokens.                           *)
(***************************************************************************)
EXTENDS Integers, Sequences, FiniteSets, TLC

\* Bounds of the model.
MaxRules == 2
MaxBases == 2
MaxFrames == 2
MaxVersion == 4
MaxWorkerFrames == 1
MaxVariants == 3
MaxCacheKeys == 2
MaxPlatforms == 2
MaxRevision == 1
MaxActivities == 2
MaxProfilingLines == 2

\* ------------------------------------------------------------ constants

VERSIONS == <<3, 2>>

LATEST_VERSION == VERSIONS[Len(VERSIONS)]

InVersions(v) == \E i \in 1..Len(VERSIONS) : VERSIONS[i] = v

\* The tokens of the rule grammar that the model uses.
MatcherTokens == {"function:f", "function:g"}

ClassifierActionTokens == {"+app", "-app", "category=ui"}

ContributesActionTokens == {"+group", "-group"}

IsMatcherToken(t) == t \in MatcherTokens

IsActionToken(t) == t \in ClassifierActionTokens \cup ContributesActionTokens

IsClassifierAction(t) == t \in ClassifierActionTokens

IsContributesAction(t) == t \in ContributesActionTokens

\* A line of the grammar is one or more matchers, then one or more actions.
IsWellFormedLine(line) ==
  \E k \in 1..(Len(line) - 1) :
     /\ \A i \in 1..k : IsMatcherToken(line[i])
     /\ \A i \in (k + 1)..Len(line) : IsActionToken(line[i])

IsWellFormedText(s) == \A i \in 1..Len(s) : IsWellFormedLine(s[i])

\* The lines a custom rule text is drawn from; the second is a mixed rule,
\* the last is malformed (its action list is empty).
LineUniverse ==
  { <<"function:f", "+app">>,
    <<"function:f", "-app", "+group">>,
    <<"function:g", "-group">>,
    <<"function:g">> }

\* The built-in rule texts of enhancement-configs/, by id.
RegisteredIds == {"legacy:2019-03-12", "newstyle:2023-01-11"}

BaseText(id) ==
  IF id = "legacy:2019-03-12"
  THEN << <<"function:f", "-app">> >>
  ELSE << <<"function:f", "-app", "-group">>, <<"function:g", "category=ui", "+group">> >>

\* Base ids a caller may name; the last one is not registered.
BaseIds == RegisteredIds \cup {"does-not-exist"}

\* str.startswith("legacy") on the ids of the model.
StartsWithLegacy(id) == id = "legacy:2019-03-12"

\* ------------------------------------------------------------ sequences

RECURSIVE SeqsUpTo(_, _)
SeqsUpTo(S, n) ==
  IF n = 0 THEN {<<>>}
  ELSE LET shorter == SeqsUpTo(S, n - 1)
       IN shorter \cup {Append(s, x) : s \in shorter, x \in S}

Distinct(s) == \A i, j \in 1..Len(s) : i # j => s[i] # s[j]

\* Sequences of pairwise different elements of S, of length at most n.
DistinctSeqs(S, n) == {s \in SeqsUpTo(S, n) : Distinct(s)}

\* ---------------------------------------------------------------- rules

\* parse_enhancements on one line: the matcher tokens, then the action tokens.
ParseLine(line) ==
  [matchers |-> SelectSeq(line, IsMatcherToken),
   actions |-> SelectSeq(line, IsActionToken)]

parse_enhancements(s) == [i \in 1..Len(s) |-> ParseLine(s[i])]

\* EnhancementRule.text
RuleText(rule) == rule.matchers \o rule.actions

has_classifier_actions(rule) ==
  \E i \in 1..Len(rule.actions) : IsClassifierAction(rule.actions[i])

has_contributes_actions(rule) ==
  \E i \in 1..Len(rule.actions) : IsContributesAction(rule.actions[i])

as_classifier_rule(rule) ==
  [matchers |-> rule.matchers, actions |-> SelectSeq(rule.actions, IsClassifierAction)]

as_contributes_rule(rule) ==
  [matchers |-> rule.matchers, actions |-> SelectSeq(rule.actions, IsContributesAction)]

\* EnhancementRule._to_config_structure / _from_config_structure
RuleToConfigStructure(rule) == <<rule.matchers, rule.actions>>

RuleFromConfigStructure(st) == [matchers |-> st[1], actions |-> st[2]]

\* parse_enhancements fails on a malformed line.
parse_enhancements_exc(s) ==
  IF IsWellFormedText(s) THEN "none" ELSE "InvalidEnhancerConfig"

\* RustEnhancements.parse: the engine's rules of a rule text.
RustParse(text) == [i \in 1..Len(text) |-> ParseLine(text[i])]

\* The bindings raise a parse error as RuntimeError.
RustParse_exc(text) == IF IsWellFormedText(text) THEN "none" ELSE "RuntimeError"

\* parse_rust_enhancements("config_string", input)
parse_rust_enhancements_string(text) == RustParse(text)

\* RuntimeError is raised again as InvalidEnhancerConfig.
parse_rust_enhancements_string_exc(text) ==
  IF RustParse_exc(text) = "RuntimeError" THEN "InvalidEnhancerConfig"
  ELSE RustParse_exc(text)

\* ------------------------------------------------------------- objects

NullEnh ==
  [attrs |-> {}, id |-> "null", version |-> 0, bases |-> <<>>, rules |-> <<>>,
   classifier_rules |-> <<>>, contributes_rules |-> <<>>,
   rust_enhancements |-> <<>>, rust_classifier_enhancements |-> <<>>,
   rust_contributes_enhancements |-> <<>>]

\* The base rules merged in front of the own rules: an id the registry does
\* not hold contributes nothing.
RECURSIVE merge_bases(_, _)
merge_bases(bases, reg) ==
  IF bases = <<>> THEN <<>>
  ELSE (IF Head(bases) \in DOMAIN reg THEN reg[Head(bases)].rust_enhancements ELSE <<>>)
       \o merge_bases(Tail(bases), reg)

\* A merge that gives up on the bases when one of them is not registered.
merge_rust_enhancements_strict(bases, rust_enhancements, reg) ==
  IF \E i \in 1..Len(bases) : bases[i] \notin DOMAIN reg
  THEN rust_enhancements
  ELSE merge_bases(bases, reg) \o rust_enhancements

merge_rust_enhancements(bases, rust_enhancements, reg) ==
  merge_bases(bases, reg) \o rust_enhancements

\* A split that forgets the `if rule._has_classifier_actions` filter.
SplitClassifierRules_unfiltered(rules) ==
  [i \in 1..Len(rules) |-> as_classifier_rule(rules[i])]

\* The two list comprehensions of Enhancements.__init__ for version 3.
SplitClassifierRules(rules) ==
  LET kept == SelectSeq(rules, has_classifier_actions)
  IN [i \in 1..Len(kept) |-> as_classifier_rule(kept[i])]

SplitContributesRules(rules) ==
  LET kept == SelectSeq(rules, has_contributes_actions)
  IN [i \in 1..Len(kept) |-> as_contributes_rule(kept[i])]

RulesText(rules) == [i \in 1..Len(rules) |-> RuleText(rules[i])]

\* Enhancements.__init__ called with a list of rules; version 0 stands for
\* None.  The registry is read only by merge_rust_enhancements.
EnhancementsInit(rules, rust_enhancements, version, bases, id, reg) ==
  LET v == IF version = 0 THEN LATEST_VERSION ELSE version
  IN IF v <= 2
     THEN [NullEnh EXCEPT
             !.attrs = {"id", "version", "bases", "rules", "rust_enhancements"},
             !.id = id, !.version = v, !.bases = bases, !.rules = rules,
             !.rust_enhancements = merge_rust_enhancements(bases, rust_enhancements, reg)]
     ELSE LET cls == SplitClassifierRules(rules)
              con == SplitContributesRules(rules)
          IN [NullEnh EXCEPT
                !.attrs = {"id", "version", "bases", "classifier_rules", "contributes_rules",
                           "rust_classifier_enhancements", "rust_contributes_enhancements"},
                !.id = id, !.version = v, !.bases = bases,
                !.classifier_rules = cls, !.contributes_rules = con,
                !.rust_classifier_enhancements =
                   parse_rust_enhancements_string(RulesText(cls)),
                !.rust_contributes_enhancements =
                   parse_rust_enhancements_string(RulesText(con))]

\* A construction that lets a malformed rule text through.
from_rules_text_exc_lenient(s) == "none"

\* The exception Enhancements.from_rules_text ends with ("none": it
\* returns): the text is parsed by the engine, then by parse_enhancements.
from_rules_text_exc(s) ==
  IF parse_rust_enhancements_string_exc(s) # "none"
  THEN parse_rust_enhancements_string_exc(s)
  ELSE parse_enhancements_exc(s)

\* Enhancements.from_rules_text
from_rules_text(s, bases, id, version, reg) ==
  EnhancementsInit(parse_enhancements(s), parse_rust_enhancements_string(s),
                   version, bases, id, reg)

\* _load_configs: every built-in text, built with no bases and no version.
LoadConfigs ==
  [id \in RegisteredIds |-> from_rules_text(BaseText(id), <<>>, id, 0, <<>>)]

\* ------------------------------------------------------- compact form

\* A compact form: `magic` is the format of the compressed bytes ("zstd":
\* they start with 28 b5 2f fd; "zlib": they do not), `structure` is what
\* msgpack holds, and `damage` is the decoding stage a corruption breaks.
NullPayload ==
  [present |-> FALSE, magic |-> "null", structure |-> <<>>, damage |-> "none"]

\* Enhancements._to_config_structure, as msgpack writes it: an array of
\* three elements (a namedtuple is written as an array).
to_config_structure(e) ==
  IF e.version <= 2
  THEN <<e.version, e.bases,
         [i \in 1..Len(e.rules) |-> RuleToConfigStructure(e.rules[i])]>>
  ELSE <<e.version,
         [i \in 1..Len(e.classifier_rules) |-> RuleToConfigStructure(e.classifier_rules[i])],
         [i \in 1..Len(e.contributes_rules) |-> RuleToConfigStructure(e.contributes_rules[i])]>>

\* Enhancements.base64_string: msgpack, then zstd (which starts the bytes
\* with its magic number), then url-safe base64.
base64_string(e) ==
  [present |-> TRUE, magic |-> "zstd", structure |-> to_config_structure(e),
   damage |-> "none"]

\* Enhancements._from_config_structure: "ValueError" or the object.
from_config_structure_exc(data) == IF InVersions(data[1]) THEN "none" ELSE "ValueError"

from_config_structure(data, rust_enhancements, reg) ==
  EnhancementsInit([i \in 1..Len(data[3]) |-> RuleFromConfigStructure(data[3][i])],
                   rust_enhancements, data[1], data[2], "null", reg)

\* RustEnhancements.from_config_structure: the engine's rules of the third
\* element of the structure.
RustFromConfigStructure(data) ==
  [i \in 1..Len(data[3]) |-> RuleFromConfigStructure(data[3][i])]

\* The stages of from_base64_string a corrupt compact form can break.
Damages == {"base64", "compressed", "msgpack", "structure"}

\* compressed_pickle.startswith(b"\x28\xb5\x2f\xfd")
StartsWithZstdMagic(p) == p.magic = "zstd"

\* zstandard.decompress and zlib.decompress: each reads its own format
\* only, and fails on bytes that are corrupt or truncated.
zstd_decompress_exc(p) ==
  IF p.magic = "zstd" /\ p.damage # "compressed" THEN "none" ELSE "ZstdError"

zlib_decompress_exc(p) ==
  IF p.magic = "zlib" /\ p.damage # "compressed" THEN "none" ELSE "zlib.error"

\* A decoder that knows zstd only.
decompress_exc_zstd_only(p) == zstd_decompress_exc(p)

\* The choice of the decompressor by the magic number.
decompress_exc(p) ==
  IF StartsWithZstdMagic(p) THEN zstd_decompress_exc(p) ELSE zlib_decompress_exc(p)

\* The exception classes `except (LookupError, AttributeError, TypeError,
\* ValueError)` catches, by the class of the exception raised.
ExceptionBase(exc) ==
  CASE exc = "binascii.Error" -> "ValueError"
    [] exc = "msgpack.FormatError" -> "ValueError"
    [] exc = "IndexError" -> "LookupError"
    [] exc = "UnboundLocalError" -> "NameError"
    [] OTHER -> "Exception"

CaughtByDecoder(exc) ==
  LET caught == {"LookupError", "AttributeError", "TypeError", "ValueError"}
  IN exc \in caught \/ ExceptionBase(exc) \in caught

\* What the body of the try block raises ("none": it returns).  rust_ok is
\* whether RustEnhancements.from_config_structure accepts a structure whose
\* version is not 2.
from_base64_string_raised(p, rust_ok) ==
  IF p.damage = "base64" THEN "binascii.Error"           \* line 510
  ELSE IF decompress_exc(p) # "none" THEN decompress_exc(p)  \* lines 512-515
  ELSE IF p.damage = "msgpack" THEN "msgpack.FormatError"    \* line 517
  ELSE IF p.damage = "structure" THEN "IndexError"           \* line 518
  ELSE LET data == p.structure
           version == data[1]
       IN IF version <= 2
          THEN IF version # 2 /\ ~rust_ok
               THEN "InvalidEnhancerConfig"   \* RuntimeError of the bindings, line 101
               ELSE from_config_structure_exc(data)
          ELSE "UnboundLocalError"            \* rust_enhancements is unbound, line 522

\* The exception from_base64_string ends with ("none": it returns): what
\* the except clause catches is raised again as ValueError, line 524.
from_base64_string_exc(p, rust_ok) ==
  LET raised == from_base64_string_raised(p, rust_ok)
  IN IF raised # "none" /\ CaughtByDecoder(raised) THEN "ValueError" ELSE raised

from_base64_string(p, reg) ==
  from_config_structure(p.structure, RustFromConfigStructure(p.structure), reg)

\* ----------------------------------------------------------- evaluation

\* The frames an event is drawn from.  data.category, data.client_in_app
\* and data.orig_in_app are "unset" while the key is absent.
Frame(function, in_app) ==
  [function |-> function, in_app |-> in_app, category |-> "unset",
   client_in_app |-> "unset", orig_in_app |-> "unset"]

FrameUniverse ==
  { Frame("f", "true"), Frame("f", "false"), Frame("f", "null"), Frame("g", "null") }

\* One matcher of the engine against a match frame.
MatcherMatches(tok, frame) ==
  \/ tok = "function:f" /\ frame.function = "f"
  \/ tok = "function:g" /\ frame.function = "g"

\* All matchers of a rule must match.
RuleMatches(rule, frame) ==
  \A i \in 1..Len(rule.matchers) : MatcherMatches(rule.matchers[i], frame)

\* One classifier action on the engine's (category, in_app) of a frame.
ApplyClassifierAction(a, st) ==
  CASE a = "+app" -> [st EXCEPT !.in_app = "true"]
    [] a = "-app" -> [st EXCEPT !.in_app = "false"]
    [] a = "category=ui" -> [st EXCEPT !.category = "ui"]
    [] OTHER -> st

RECURSIVE FoldClassifierActions(_, _)
FoldClassifierActions(actions, st) ==
  IF actions = <<>> THEN st
  ELSE FoldClassifierActions(Tail(actions), ApplyClassifierAction(Head(actions), st))

RECURSIVE FoldClassifierRules(_, _, _)
FoldClassifierRules(rules, frame, st) ==
  IF rules = <<>> THEN st
  ELSE FoldClassifierRules(Tail(rules), frame,
         IF RuleMatches(Head(rules), frame)
         THEN FoldClassifierActions(Head(rules).actions, st)
         ELSE st)

\* RustEnhancements.apply_modifications_to_frames: every rule in order,
\* the last matching rule that sets a target decides it.
apply_modifications_to_frames(rules, match_frames) ==
  [i \in 1..Len(match_frames) |->
     FoldClassifierRules(rules, match_frames[i], [category |-> "null", in_app |-> "null"])]

\* int(orig_in_app), or -1 for None
OrigInAppInt(in_app) ==
  CASE in_app = "true" -> "1" [] in_app = "false" -> "0" [] OTHER -> "-1"

\* sentry.stacktraces.functions.set_in_app
set_in_app(frame, value) ==
  IF frame.in_app = value THEN frame
  ELSE [frame EXCEPT !.orig_in_app = IF @ = "unset" THEN OrigInAppInt(frame.in_app) ELSE @,
                     !.in_app = value]

\* A loop body without the two `is not None` tests.
ApplyResultToFrame_unconditional(frame, res) ==
  LET f1 == [frame EXCEPT !.client_in_app = IF @ \in {"unset", "null"} THEN frame.in_app ELSE @]
      f2 == set_in_app(f1, res.in_app)
  IN [f2 EXCEPT !.category = res.category]

\* The loop body of apply_category_and_updated_in_app_to_frames.
\* setdefault_path writes where the key is absent or holds None.
ApplyResultToFrame(frame, res) ==
  LET f1 == [frame EXCEPT !.client_in_app = IF @ \in {"unset", "null"} THEN frame.in_app ELSE @]
      f2 == IF res.in_app # "null" THEN set_in_app(f1, res.in_app) ELSE f1
  IN IF res.category # "null" THEN [f2 EXCEPT !.category = res.category] ELSE f2

\* One action of a matching rule on the engine's component of a frame.
ApplyContributesAction(a, frame, rc) ==
  CASE a = "+group" ->
         IF rc.contributes THEN rc
         ELSE [contributes |-> TRUE, hint |-> "un-ignored by stack trace rule"]
    [] a = "-group" ->
         IF rc.contributes
         THEN [contributes |-> FALSE, hint |-> "ignored by stack trace rule"]
         ELSE rc
    [] a = "+app" ->
         IF frame.in_app = "true"
         THEN [rc EXCEPT !.hint = "marked in-app by stack trace rule"] ELSE rc
    [] a = "-app" ->
         IF frame.in_app = "false"
         THEN [rc EXCEPT !.hint = "marked out of app by stack trace rule"] ELSE rc
    [] OTHER -> rc

RECURSIVE FoldContributesActions(_, _, _)
FoldContributesActions(actions, frame, rc) ==
  IF actions = <<>> THEN rc
  ELSE FoldContributesActions(Tail(actions), frame,
                              ApplyContributesAction(Head(actions), frame, rc))

RECURSIVE FoldContributesRules(_, _, _)
FoldContributesRules(rules, frame, rc) ==
  IF rules = <<>> THEN rc
  ELSE FoldContributesRules(Tail(rules), frame,
         IF RuleMatches(Head(rules), frame)
         THEN FoldContributesActions(Head(rules).actions, frame, rc)
         ELSE rc)

\* RustEnhancements.assemble_stacktrace_component on the frame components.
RustAssembleComponents(rules, match_frames, rust_frame_components) ==
  [i \in 1..Len(match_frames) |->
     FoldContributesRules(rules, match_frames[i], rust_frame_components[i])]

\* str.startswith on the hints of the model.
StartsWithMarkedOutOfApp(hint) == hint = "marked out of app by stack trace rule"

StartsWithMarkedInApp(hint) == hint = "marked in-app by stack trace rule"

\* GroupingComponent.update(contributes=..., hint=...): a hint of None
\* leaves the hint as it is.
ComponentUpdate(py, contributes, hint) ==
  [py EXCEPT !.contributes = contributes, !.hint = IF hint = "null" THEN @ ELSE hint]

\* bases and bases[0].startswith("legacy")
LegacyFirst(e) == Len(e.bases) > 0 /\ StartsWithLegacy(e.bases[1])

\* An update whose first branch tests `py_component.in_app` without the `not`.
UpdateFrameComponent_inverted(e, variant_name, py, rc) ==
  IF ~LegacyFirst(e) /\ variant_name = "app" /\ py.in_app = "true"
  THEN ComponentUpdate(py, FALSE,
         IF rc.hint # "null" /\ StartsWithMarkedOutOfApp(rc.hint) THEN rc.hint ELSE py.hint)
  ELSE IF variant_name = "system"
  THEN ComponentUpdate(py, rc.contributes,
         IF rc.hint # "null" /\ ~StartsWithMarkedInApp(rc.hint)
                             /\ ~StartsWithMarkedOutOfApp(rc.hint)
         THEN rc.hint ELSE py.hint)
  ELSE ComponentUpdate(py, rc.contributes, rc.hint)

\* An update whose "system" branch takes every hint of the engine.
UpdateFrameComponent_system_hints(e, variant_name, py, rc) ==
  IF ~LegacyFirst(e) /\ variant_name = "app" /\ py.in_app # "true"
  THEN ComponentUpdate(py, FALSE,
         IF rc.hint # "null" /\ StartsWithMarkedOutOfApp(rc.hint) THEN rc.hint ELSE py.hint)
  ELSE ComponentUpdate(py, rc.contributes, rc.hint)

\* An update whose "app" branch takes every hint of the engine.
UpdateFrameComponent_engine_hint(e, variant_name, py, rc) ==
  IF ~LegacyFirst(e) /\ variant_name = "app" /\ py.in_app # "true"
  THEN ComponentUpdate(py, FALSE, rc.hint)
  ELSE IF variant_name = "system"
  THEN ComponentUpdate(py, rc.contributes,
         IF rc.hint # "null" /\ ~StartsWithMarkedInApp(rc.hint)
                             /\ ~StartsWithMarkedOutOfApp(rc.hint)
         THEN rc.hint ELSE py.hint)
  ELSE ComponentUpdate(py, rc.contributes, rc.hint)

\* The body of the loop that updates a frame component from the engine's.
UpdateFrameComponent(e, variant_name, py, rc) ==
  IF ~LegacyFirst(e) /\ variant_name = "app" /\ py.in_app # "true"
  THEN ComponentUpdate(py, FALSE,
         IF rc.hint # "null" /\ StartsWithMarkedOutOfApp(rc.hint) THEN rc.hint ELSE py.hint)
  ELSE IF variant_name = "system"
  THEN ComponentUpdate(py, rc.contributes,
         IF rc.hint # "null" /\ ~StartsWithMarkedInApp(rc.hint)
                             /\ ~StartsWithMarkedOutOfApp(rc.hint)
         THEN rc.hint ELSE py.hint)
  ELSE ComponentUpdate(py, rc.contributes, rc.hint)

\* The key of a frame in frame_counts.
FrameCountKey(py) ==
  IF py.in_app = "true"
  THEN (IF py.contributes THEN "in_app_contributing_frames"
        ELSE "in_app_non_contributing_frames")
  ELSE (IF py.contributes THEN "system_contributing_frames"
        ELSE "system_non_contributing_frames")

FrameCountKeys ==
  {"in_app_contributing_frames", "in_app_non_contributing_frames",
   "system_contributing_frames", "system_non_contributing_frames"}

\* A tally that leaves out the frames that do not contribute.
FrameCounts_contributing_only(components) ==
  [k \in FrameCountKeys |->
     Cardinality({i \in 1..Len(components) :
                    components[i].contributes /\ FrameCountKey(components[i]) = k})]

\* frame_counts: one increment per frame, after the frame's update.
FrameCounts(components) ==
  [k \in FrameCountKeys |->
     Cardinality({i \in 1..Len(components) : FrameCountKey(components[i]) = k})]

NullStack ==
  [present |-> FALSE, values |-> <<>>, hint |-> "null", contributes |-> FALSE,
   frame_counts |-> [k \in FrameCountKeys |-> 0]]

NullRust == [components |-> <<>>, contributes |-> FALSE, hint |-> "null"]

\* An assembly without the special case for a stacktrace that is left with
\* no contributing in-app frame.
StacktraceComponent_no_collapse(e, variant_name, frame_components, rust_components, results) ==
  LET values == [i \in 1..Len(frame_components) |->
                   UpdateFrameComponent(e, variant_name, frame_components[i], rust_components[i])]
  IN [present |-> TRUE, values |-> values, hint |-> results.hint,
      contributes |-> results.contributes, frame_counts |-> FrameCounts(values)]

\* The part of assemble_stacktrace_component after the engine's call.
StacktraceComponent(e, variant_name, frame_components, rust_components, results) ==
  LET values == [i \in 1..Len(frame_components) |->
                   UpdateFrameComponent(e, variant_name, frame_components[i], rust_components[i])]
      frame_counts == FrameCounts(values)
      collapse == /\ ~LegacyFirst(e)
                  /\ variant_name = "app"
                  /\ frame_counts["in_app_contributing_frames"] = 0
  IN [present |-> TRUE, values |-> values,
      hint |-> IF collapse THEN "null" ELSE results.hint,
      contributes |-> IF collapse THEN FALSE ELSE results.contributes,
      frame_counts |-> frame_counts]

\* The frame components the grouping strategy hands over: contributing, or
\* (at most one of them) already ignored with a hint of its own.
FrameComponent(frame, contributes) ==
  [in_app |-> frame.in_app, contributes |-> contributes,
   hint |-> IF contributes THEN "null" ELSE "ignored by the strategy"]

\* ---------------------------------------------------------------- state

VARIABLES
  ENHANCEMENT_BASES,  \* the registry of base rule sets
  enh,                \* the rule set the methods are called on (NullEnh: none yet)
  payload,            \* the compact form in flight
  event,              \* the event under evaluation: its frames
  call,               \* the last call: its operation, arguments and exception
  ret_enh,            \* the rule set the last call returned (NullEnh: none)
  ret_stack,          \* the stacktrace component the last call returned
  rust_results,       \* what the engine returned to the last assemble call
  workers,            \* the workers that evaluate concurrently, by number
  grouping_info,      \* the last call of get_grouping_info_from_variants
  event_processing_store,  \* processing.event_processing_store, by cache key
  db,                 \* project options, revision, activities, raw events
  run,                \* the last run of a store task: arguments, effects, outcome
  failing,            \* the workers inside create_failed_event, by number
  profiling           \* the last call of keep_profiling_rules

vars ==
  <<ENHANCEMENT_BASES, enh, payload, event, call, ret_enh, ret_stack, rust_results,
    workers, grouping_info, event_processing_store, db, run, failing, profiling>>

\* The state of the rule sets and of their evaluation.
enhancer_vars ==
  <<ENHANCEMENT_BASES, enh, payload, event, call, ret_enh, ret_stack, rust_results,
    workers>>

\* The state of grouping info and of the store tasks.
task_vars == <<grouping_info, event_processing_store, db, run, failing, profiling>>

\* What a method that ends without a return statement returns: None.
NoneResult == [none |-> TRUE, category |-> "null", in_app |-> "null"]

NullCall ==
  [op |-> "none", exc |-> "none", text |-> <<>>, bases |-> <<>>, version |-> 0,
   variant_name |-> "null", evaluated |-> "null", before |-> <<>>,
   breakpoint |-> FALSE, ignored |-> 0, frame |-> 0, returned |-> NoneResult]

NullEvent == [present |-> FALSE, frames |-> <<>>, received |-> <<>>]

HasAttr(e, name) == name \in e.attrs

\* Two workers share the rule set.
Workers == {1, 2}

\* A worker: where it is in its method call (pc), the method (op), the
\* frames it was given (input) and as they are now (frames), and the local
\* names of the call: results, the loop index i, the exception, the
\* stacktrace component under construction (ret).
NullWorker ==
  [pc |-> "idle", op |-> "none", input |-> <<>>, frames |-> <<>>, results |-> <<>>,
   i |-> 0, exc |-> "none", ret |-> NullStack]

\* No call of get_grouping_info_from_variants yet.
NullGroupingInfo == [called |-> FALSE, variants |-> <<>>, ret |-> <<>>]

\* The cache keys of the processing store; 0 stands for a missing key.
CacheKeys == 1..MaxCacheKeys

\* What the processing store holds under a key: nothing ("null"), the
\* event as ingested ("raw") or the event after processing and
\* re-normalization ("normalized").
EmptyStore == [k \in CacheKeys |-> "null"]

\* The rows of one project: the options sentry:reprocessing_active and
\* sentry:sent_failed_event_hint ("unset" while there is no row), the
\* reprocessing revision, the number of NEW_PROCESSING_ISSUES activities
\* created, and how many of them since the hint was last cleared.
NullDb ==
  [reprocessing_active |-> FALSE, sent_failed_event_hint |-> "unset", revision |-> 0,
   activities |-> 0, since_clear |-> 0]

\* One effect of a run, in the order of the run's effects: what was done
\* (op), the task submitted, the cache key involved, the function that
\* did it, and the has_attachments a task is submitted with.
Effect(op, task, cache_key, by) ==
  [op |-> op, task |-> task, cache_key |-> cache_key, by |-> by,
   has_attachments |-> FALSE]

\* No run of a store task yet.  A run records the task that was called
\* (entry), its arguments (cache_key, data_given, data_has_changed,
\* has_attachments), what it read on its way (found,
\* platforms, killswitch, should_process, disabled, changed_by, issues,
\* supports, reprocessed, bump, report_meanwhile), the database and the
\* processing store as it found them, how create_failed_event ended
\* (failed), the key the store returned, and its effects in order; a run
\* of _do_save_event also the data it worked on (data), whether event_id
\* and project_id were given, whether the event had a reprocessing report
\* (had_report), how the save ended (outcome) and the exception that ended
\* the run (exc).
NullRun ==
  [op |-> "none", entry |-> "null", cache_key |-> 0, data_given |-> FALSE,
   data_has_changed |-> FALSE, has_attachments |-> FALSE,
   found |-> FALSE, platforms |-> 0, killswitch |-> FALSE, should_process |-> FALSE,
   disabled |-> FALSE, changed_by |-> "nothing", has_changed |-> FALSE,
   issues |-> FALSE, supports |-> FALSE, reprocessed |-> FALSE, bump |-> FALSE,
   report_meanwhile |-> FALSE, before |-> NullDb, store_before |-> EmptyStore,
   failed |-> "not called", returned_key |-> 0, effects |-> <<>>,
   data |-> "null", event_id_given |-> FALSE, project_id_given |-> FALSE,
   had_report |-> FALSE, outcome |-> "none", exc |-> "none"]

\* Two workers run create_failed_event for the project.
FailingWorkers == {1, 2}

\* A worker inside create_failed_event: where it is (pc), the local name
\* sent_notification, and whether it created the activity.
NullFailing == [pc |-> "idle", sent_notification |-> "null", created |-> FALSE]

\* No call of keep_profiling_rules yet.
NullProfiling == [called |-> FALSE, config |-> <<>>, ret |-> <<>>]

\* No grouping info was asked for and no store task has run.
TasksIdle ==
  /\ grouping_info = NullGroupingInfo
  /\ event_processing_store = EmptyStore
  /\ db = NullDb
  /\ run = NullRun
  /\ failing = [w \in FailingWorkers |-> NullFailing]
  /\ profiling = NullProfiling

Init ==
  /\ ENHANCEMENT_BASES = LoadConfigs
  /\ enh = NullEnh
  /\ payload = NullPayload
  /\ event = NullEvent
  /\ call = NullCall
  /\ ret_enh = NullEnh
  /\ ret_stack = NullStack
  /\ rust_results = NullRust
  /\ workers = [w \in Workers |-> NullWorker]
  /\ TasksIdle

\* Enhancements.from_rules_text(s, bases, version=version).  A behaviour
\* follows one rule set from its construction on: rule sets share nothing
\* but the registry.
FromRulesText ==
  /\ enh = NullEnh
  /\ call.op = "none"
  /\ \E s \in DistinctSeqs(LineUniverse, MaxRules),
        bases \in DistinctSeqs(BaseIds, MaxBases),
        version \in {0, 2, 3} :
       LET exc == from_rules_text_exc(s)
           e == IF exc = "none"
                THEN from_rules_text(s, bases, "null", version, ENHANCEMENT_BASES)
                ELSE NullEnh
       IN /\ enh' = e
          /\ ret_enh' = e
          /\ call' = [NullCall EXCEPT !.op = "from_rules_text", !.exc = exc, !.text = s,
                                      !.bases = bases, !.version = version]
  /\ ret_stack' = NullStack
  /\ rust_results' = NullRust
  /\ UNCHANGED <<ENHANCEMENT_BASES, payload, event, workers, task_vars>>

\* enh.base64_string
Base64String ==
  /\ enh # NullEnh
  /\ call.op = "none"
  /\ payload' = base64_string(enh)
  /\ call' = [NullCall EXCEPT !.op = "base64_string"]
  /\ ret_enh' = NullEnh
  /\ ret_stack' = NullStack
  /\ rust_results' = NullRust
  /\ UNCHANGED <<ENHANCEMENT_BASES, enh, event, workers, task_vars>>

\* The same structure as an older encoder wrote it: compressed with zlib.
ZlibEncoded ==
  /\ payload.present
  /\ payload.magic = "zstd"
  /\ payload.damage = "none"
  /\ call.op = "none"
  /\ payload' = [payload EXCEPT !.magic = "zlib"]
  /\ call' = [NullCall EXCEPT !.op = "zlib_encoded"]
  /\ ret_enh' = NullEnh
  /\ ret_stack' = NullStack
  /\ rust_results' = NullRust
  /\ UNCHANGED <<ENHANCEMENT_BASES, enh, event, workers, task_vars>>

\* A compact form that is corrupt or truncated: one decoding stage fails.
Corrupt ==
  /\ payload.present
  /\ payload.damage = "none"
  /\ call.op = "none"
  /\ \E d \in Damages : payload' = [payload EXCEPT !.damage = d]
  /\ call' = [NullCall EXCEPT !.op = "corrupt"]
  /\ ret_enh' = NullEnh
  /\ ret_stack' = NullStack
  /\ rust_results' = NullRust
  /\ UNCHANGED <<ENHANCEMENT_BASES, enh, event, workers, task_vars>>

\* A compact form that is well formed but carries another version number.
TamperVersion ==
  /\ payload.present
  /\ payload.damage = "none"
  /\ call.op = "none"
  /\ \E v \in (0..MaxVersion) \ {2, 3} :
       payload' = [payload EXCEPT !.structure[1] = v]
  /\ call' = [NullCall EXCEPT !.op = "tamper"]
  /\ ret_enh' = NullEnh
  /\ ret_stack' = NullStack
  /\ rust_results' = NullRust
  /\ UNCHANGED <<ENHANCEMENT_BASES, enh, event, workers, task_vars>>

\* Enhancements.from_base64_string(payload)
FromBase64String ==
  /\ payload.present
  /\ call.op = "none"
  /\ \E rust_ok \in BOOLEAN :
       LET exc == from_base64_string_exc(payload, rust_ok)
       IN /\ call' = [NullCall EXCEPT !.op = "from_base64_string", !.exc = exc]
          /\ ret_enh' = IF exc = "none"
                        THEN from_base64_string(payload, ENHANCEMENT_BASES)
                        ELSE NullEnh
  /\ ret_stack' = NullStack
  /\ rust_results' = NullRust
  /\ UNCHANGED <<ENHANCEMENT_BASES, enh, payload, event, workers, task_vars>>

\* A get_default_enhancements that keeps the rule set it builds in the
\* registry.
GetDefaultEnhancements_registering ==
  /\ call.op = "none"
  /\ \E enhancements_id \in RegisteredIds :
       LET old == from_rules_text(<<>>, <<enhancements_id>>, "null", 0, ENHANCEMENT_BASES)
       IN /\ ENHANCEMENT_BASES' = [ENHANCEMENT_BASES EXCEPT ![enhancements_id] = old]
          /\ ret_enh' = old
          /\ call' = [NullCall EXCEPT !.op = "get_default_enhancements"]
  /\ ret_stack' = NullStack
  /\ rust_results' = NullRust
  /\ UNCHANGED <<enh, payload, event, workers, task_vars>>

\* Enhancements.get_default_enhancements(grouping_config_id): enhancements_id
\* is the strategy configuration's base, or the default id.
GetDefaultEnhancements ==
  /\ call.op = "none"
  /\ \E enhancements_id \in RegisteredIds :
       LET old == from_rules_text(<<>>, <<enhancements_id>>, "null", 0, ENHANCEMENT_BASES)
           new == ENHANCEMENT_BASES[enhancements_id]
       IN /\ ret_enh' = ENHANCEMENT_BASES[enhancements_id]
          /\ call' = [NullCall EXCEPT
                        !.op = "get_default_enhancements",
                        !.bases = <<enhancements_id>>,
                        !.breakpoint = (base64_string(new) # base64_string(old))]
  /\ ret_stack' = NullStack
  /\ rust_results' = NullRust
  /\ UNCHANGED <<ENHANCEMENT_BASES, enh, payload, event, workers, task_vars>>

\* An event arrives for the rule set: its stacktrace's frames.  The frames
\* as the client sent them are kept aside in `received`.
ReceiveEvent ==
  /\ enh # NullEnh
  /\ ~event.present
  /\ call.op = "none"
  /\ \E frames \in SeqsUpTo(FrameUniverse, MaxFrames) :
       event' = [present |-> TRUE, frames |-> frames, received |-> frames]
  /\ call' = [NullCall EXCEPT !.op = "receive_event"]
  /\ ret_enh' = NullEnh
  /\ ret_stack' = NullStack
  /\ rust_results' = NullRust
  /\ UNCHANGED <<ENHANCEMENT_BASES, enh, payload, workers, task_vars>>

\* enh.apply_category_and_updated_in_app_to_frames(frames, platform, exception_data)
ApplyCategoryAndUpdatedInAppToFrames ==
  /\ event.present
  /\ call.op = "none"
  /\ IF HasAttr(enh, "rust_enhancements")
     THEN \E results \in {apply_modifications_to_frames(enh.rust_enhancements, event.frames)} :
             /\ event' = [event EXCEPT !.frames =
                            [i \in 1..Len(event.frames) |->
                               ApplyResultToFrame(event.frames[i], results[i])]]
             /\ call' = [NullCall EXCEPT !.op = "apply_category_and_updated_in_app_to_frames",
                                         !.evaluated = "rust_enhancements",
                                         !.before = event.frames]
     ELSE /\ event' = event
          /\ call' = [NullCall EXCEPT !.op = "apply_category_and_updated_in_app_to_frames",
                                      !.exc = "AttributeError",
                                      !.before = event.frames]
  /\ ret_enh' = NullEnh
  /\ ret_stack' = NullStack
  /\ rust_results' = NullRust
  /\ UNCHANGED <<ENHANCEMENT_BASES, enh, payload, workers, task_vars>>

\* get_category_and_in_app_for_frame after the engine's call: the pair is
\* bound to two local names and the method ends without a return statement.
get_category_and_in_app_for_frame(rules, frame) ==
  LET result == apply_modifications_to_frames(rules, <<frame>>)[1]
      category == result.category
      in_app == result.in_app
  IN NoneResult

\* enh.get_category_and_in_app_for_frame(frame, platform, rust_exception_data)
\* on a frame of the event.
GetCategoryAndInAppForFrame ==
  /\ event.present
  /\ call.op = "none"
  /\ \E i \in 1..Len(event.frames) :
       call' = IF HasAttr(enh, "rust_enhancements")
               THEN [NullCall EXCEPT
                       !.op = "get_category_and_in_app_for_frame",
                       !.evaluated = "rust_enhancements",
                       !.frame = i,
                       !.returned = get_category_and_in_app_for_frame(
                                       enh.rust_enhancements, event.frames[i])]
               ELSE [NullCall EXCEPT !.op = "get_category_and_in_app_for_frame",
                                     !.frame = i,
                                     !.exc = "AttributeError"]
  /\ ret_enh' = NullEnh
  /\ ret_stack' = NullStack
  /\ rust_results' = NullRust
  /\ UNCHANGED <<ENHANCEMENT_BASES, enh, payload, event, workers, task_vars>>

\* The hints the engine may give for the stacktrace as a whole.
StacktraceHints == {"null", "discarded by stack trace rule"}

\* enh.assemble_stacktrace_component(variant_name, frame_components, frames, platform)
AssembleStacktraceComponent ==
  /\ event.present
  /\ call.op = "none"
  /\ \E variant_name \in {"app", "system"},
        ignored \in 0..Len(event.frames),
        rust_hint \in StacktraceHints :
       LET frame_components == [i \in 1..Len(event.frames) |->
                                  FrameComponent(event.frames[i], i # ignored)]
           rust_frame_components == [i \in 1..Len(event.frames) |->
                                       [contributes |-> frame_components[i].contributes,
                                        hint |-> "null"]]
       IN IF HasAttr(enh, "rust_enhancements")
          THEN \E rust_components \in {RustAssembleComponents(enh.rust_enhancements,
                                           event.frames, rust_frame_components)} :
               LET results == [components |-> rust_components,
                               contributes |-> \E i \in 1..Len(rust_components) :
                                                  rust_components[i].contributes,
                               hint |-> rust_hint]
               IN /\ rust_results' = results
                  /\ ret_stack' = StacktraceComponent(enh, variant_name, frame_components,
                                                      rust_components, results)
                  /\ call' = [NullCall EXCEPT !.op = "assemble_stacktrace_component",
                                              !.variant_name = variant_name,
                                              !.ignored = ignored,
                                              !.evaluated = "rust_enhancements"]
          ELSE /\ rust_results' = NullRust
               /\ ret_stack' = NullStack
               /\ call' = [NullCall EXCEPT !.op = "assemble_stacktrace_component",
                                           !.variant_name = variant_name,
                                           !.ignored = ignored,
                                           !.exc = "AttributeError"]
  /\ ret_enh' = NullEnh
  /\ UNCHANGED <<ENHANCEMENT_BASES, enh, payload, event, workers, task_vars>>

\* The caller takes what the last call returned or raised; the next call
\* starts from there.
Return ==
  /\ call.op # "none"
  /\ call' = NullCall
  /\ ret_enh' = NullEnh
  /\ ret_stack' = NullStack
  /\ rust_results' = NullRust
  /\ UNCHANGED <<ENHANCEMENT_BASES, enh, payload, event, workers, task_vars>>

\* The state in which workers evaluate: a rule set built from a built-in
\* rule text is shared, and no worker has started.
ConcInit ==
  /\ ENHANCEMENT_BASES = LoadConfigs
  /\ \E id \in RegisteredIds, version \in {2, 3} :
       enh = from_rules_text(BaseText(id), <<>>, id, version, LoadConfigs)
  /\ payload = NullPayload
  /\ event = NullEvent
  /\ call = NullCall
  /\ ret_enh = NullEnh
  /\ ret_stack = NullStack
  /\ rust_results = NullRust
  /\ workers = [w \in Workers |-> NullWorker]
  /\ TasksIdle

\* A worker is given a stacktrace of its own and enters
\* apply_category_and_updated_in_app_to_frames or
\* assemble_stacktrace_component (for the "app" variant).
WorkerStart ==
  /\ \E w \in Workers :
       /\ workers[w].pc = "idle"
       /\ \E frames \in SeqsUpTo(FrameUniverse, MaxWorkerFrames),
             op \in {"apply", "assemble"} :
            workers' = [workers EXCEPT ![w] =
                          [NullWorker EXCEPT !.pc = "call", !.op = op,
                                             !.input = frames, !.frames = frames]]
  /\ UNCHANGED <<ENHANCEMENT_BASES, enh, payload, event, call, ret_enh, ret_stack,
                 rust_results, task_vars>>

\* An engine call that uses up the rules of the rule set it reads.
WorkerCallEngine_draining ==
  /\ \E w \in Workers :
       /\ workers[w].pc = "call"
       /\ IF HasAttr(enh, "rust_enhancements")
          THEN /\ workers' = [workers EXCEPT
                    ![w].pc = "loop",
                    ![w].i = 1,
                    ![w].results =
                       IF workers[w].op = "apply"
                       THEN apply_modifications_to_frames(enh.rust_enhancements,
                                                          workers[w].frames)
                       ELSE RustAssembleComponents(
                              enh.rust_enhancements, workers[w].frames,
                              [k \in 1..Len(workers[w].frames) |->
                                 [contributes |-> TRUE, hint |-> "null"]])]
               /\ enh' = [enh EXCEPT !.rust_enhancements = <<>>]
          ELSE /\ workers' = [workers EXCEPT ![w].pc = "done", ![w].exc = "AttributeError"]
               /\ enh' = enh
  /\ UNCHANGED <<ENHANCEMENT_BASES, payload, event, call, ret_enh, ret_stack,
                 rust_results, task_vars>>

\* The worker reads self.rust_enhancements and calls the engine on its own
\* frames (lines 288 and 328); the result is bound to a local name.
WorkerCallEngine ==
  /\ \E w \in Workers :
       /\ workers[w].pc = "call"
       /\ IF HasAttr(enh, "rust_enhancements")
          THEN workers' = [workers EXCEPT
                    ![w].pc = "loop",
                    ![w].i = 1,
                    ![w].results =
                       IF workers[w].op = "apply"
                       THEN apply_modifications_to_frames(enh.rust_enhancements,
                                                          workers[w].frames)
                       ELSE RustAssembleComponents(
                              enh.rust_enhancements, workers[w].frames,
                              [k \in 1..Len(workers[w].frames) |->
                                 [contributes |-> TRUE, hint |-> "null"]])]
          ELSE workers' = [workers EXCEPT ![w].pc = "done", ![w].exc = "AttributeError"]
  /\ UNCHANGED <<ENHANCEMENT_BASES, enh, payload, event, call, ret_enh, ret_stack,
                 rust_results, task_vars>>

\* One turn of the loop over the frames (lines 292-303) or over the frame
\* components (lines 338-379).
WorkerLoopStep ==
  /\ \E w \in Workers :
       LET me == workers[w]
       IN /\ me.pc = "loop"
          /\ me.i <= Len(me.frames)
          /\ workers' =
               IF me.op = "apply"
               THEN [workers EXCEPT
                       ![w].frames[me.i] = ApplyResultToFrame(me.frames[me.i], me.results[me.i]),
                       ![w].i = me.i + 1]
               ELSE [workers EXCEPT
                       ![w].ret.values =
                          Append(@, UpdateFrameComponent(enh, "app",
                                       FrameComponent(me.frames[me.i], TRUE),
                                       me.results[me.i])),
                       ![w].i = me.i + 1]
  /\ UNCHANGED <<ENHANCEMENT_BASES, enh, payload, event, call, ret_enh, ret_stack,
                 rust_results, task_vars>>

\* The loop has ended: the method returns (lines 388-406 for the assembly).
WorkerFinish ==
  /\ \E w \in Workers :
       LET me == workers[w]
           frame_counts == FrameCounts(me.ret.values)
           collapse == ~LegacyFirst(enh) /\ frame_counts["in_app_contributing_frames"] = 0
       IN /\ me.pc = "loop"
          /\ me.i > Len(me.frames)
          /\ workers' =
               IF me.op = "apply"
               THEN [workers EXCEPT ![w].pc = "done"]
               ELSE [workers EXCEPT
                       ![w].pc = "done",
                       ![w].ret = [present |-> TRUE,
                                   values |-> me.ret.values,
                                   hint |-> "null",
                                   contributes |->
                                      IF collapse THEN FALSE
                                      ELSE \E k \in 1..Len(me.results) :
                                              me.results[k].contributes,
                                   frame_counts |-> frame_counts]]
  /\ UNCHANGED <<ENHANCEMENT_BASES, enh, payload, event, call, ret_enh, ret_stack,
                 rust_results, task_vars>>

\* Two workers evaluate against the shared rule set, their steps interleaved.
ConcNext ==
  \/ WorkerStart
  \/ WorkerCallEngine
  \/ WorkerLoopStep
  \/ WorkerFinish

ConcSpec == ConcInit /\ [][ConcNext]_vars

\* Construction and the compact form.
Next ==
  \/ FromRulesText
  \/ Base64String
  \/ ZlibEncoded
  \/ Corrupt
  \/ TamperVersion
  \/ FromBase64String
  \/ GetDefaultEnhancements
  \/ Return

Spec == Init /\ [][Next]_vars

\* Construction and the evaluation of an event.
EvalNext ==
  \/ FromRulesText
  \/ ReceiveEvent
  \/ ApplyCategoryAndUpdatedInAppToFrames
  \/ GetCategoryAndInAppForFrame
  \/ AssembleStacktraceComponent
  \/ Return

EvalSpec == Init /\ [][EvalNext]_vars

\* ---------------------------------------------------------- grouping info

\* The keys under which variants are stored.
VariantKeyUniverse == <<"app", "system", "default", "custom_fingerprint">>

VariantKeys == {VariantKeyUniverse[i] : i \in 1..MaxVariants}

\* What a variant's as_dict() may return: a dictionary from field names to
\* values.  BaseVariant is open to subclasses, so the dictionary may hold
\* a field "key" of its own.
AsDictUniverse ==
  {[type |-> "component"], [type |-> "component", hash |-> "h"]}
    \cup {[type |-> "component", key |-> k] : k \in {"app", "system"}}

\* {"key": key, **d}: the fields of d are written after "key".
KeyThenSpread(key, d) ==
  [f \in {"key"} \cup DOMAIN d |-> IF f \in DOMAIN d THEN d[f] ELSE key]

\* get_grouping_info_from_variants(variants), with each variant given by
\* its as_dict().
get_grouping_info_from_variants(variants) ==
  [k \in DOMAIN variants |-> KeyThenSpread(k, variants[k])]

\* A call of get_grouping_info_from_variants on a dictionary of variants.
GetGroupingInfoFromVariants ==
  /\ ~grouping_info.called
  /\ \E keys \in SUBSET VariantKeys :
       \E variants \in [keys -> AsDictUniverse] :
         grouping_info' = [called |-> TRUE, variants |-> variants,
                           ret |-> get_grouping_info_from_variants(variants)]
  /\ UNCHANGED <<enhancer_vars, profiling, event_processing_store, db, run, failing>>

\* The caller takes the dictionary.
ReturnGroupingInfo ==
  /\ grouping_info.called
  /\ grouping_info' = NullGroupingInfo
  /\ UNCHANGED <<enhancer_vars, profiling, event_processing_store, db, run, failing>>

InfoNext ==
  \/ GetGroupingInfoFromVariants
  \/ ReturnGroupingInfo

InfoSpec == Init /\ [][InfoNext]_vars

\* ------------------------------------------------------------ store tasks

\* processing.event_processing_store.get(cache_key)
StoreGet(store, cache_key) ==
  IF cache_key \in CacheKeys THEN store[cache_key] ELSE "null"

\* submit_save_event(task_kind, project_id, cache_key, ...): task.delay
\* with the cache key (and the data only where there is no key).
submit_save_event(cache_key, by) == Effect("submit", "save", cache_key, by)

\* A body without the return after submit_symbolicate.
do_preprocess_event_fall_through(cache_key, found, platforms, killswitch, should_process) ==
  LET by == "_do_preprocess_event"
      should_symbolicate == platforms > 0
  IN IF ~found THEN <<>>
     ELSE (IF should_symbolicate /\ ~killswitch
           THEN <<Effect("backup_unprocessed_event", "null", cache_key, by),
                  Effect("submit", "symbolicate", cache_key, by)>>
           ELSE <<>>)
          \o (IF should_symbolicate \/ should_process
              THEN <<Effect("submit", "process", cache_key, by)>>
              ELSE <<submit_save_event(cache_key, by)>>)

\* A body that asks only should_process(data) before it submits to process.
do_preprocess_event_shed_to_save(cache_key, found, platforms, killswitch, should_process) ==
  LET by == "_do_preprocess_event"
      should_symbolicate == platforms > 0
  IN IF ~found THEN <<>>
     ELSE IF should_symbolicate /\ ~killswitch
     THEN <<Effect("backup_unprocessed_event", "null", cache_key, by),
            Effect("submit", "symbolicate", cache_key, by)>>
     ELSE IF should_process
     THEN <<Effect("submit", "process", cache_key, by)>>
     ELSE <<submit_save_event(cache_key, by)>>

\* _do_preprocess_event after the lookup of the data: the effects of the
\* run, in order.  platforms is len(symbolicate_platforms), killswitch the
\* answer of the symbolication load-shed killswitch, should_process that of
\* should_process(data).  from_reprocessing and the platform choose the
\* queue of the task and are left out; has_attachments is put on the
\* submitted tasks by Carry.
do_preprocess_event(cache_key, found, platforms, killswitch, should_process) ==
  LET by == "_do_preprocess_event"
      should_symbolicate == platforms > 0
  IN IF ~found THEN <<>>
     ELSE IF should_symbolicate /\ ~killswitch
     THEN <<Effect("backup_unprocessed_event", "null", cache_key, by),
            Effect("submit", "symbolicate", cache_key, by)>>
     ELSE IF should_symbolicate \/ should_process
     THEN <<Effect("submit", "process", cache_key, by)>>
     ELSE <<submit_save_event(cache_key, by)>>

\* The has_attachments argument a function passes on to the tasks it
\* submits (submit_symbolicate, submit_process, SaveEventTaskKind).
Carry(effects, has_attachments) ==
  [i \in 1..Len(effects) |->
     IF effects[i].op = "submit"
     THEN [effects[i] EXCEPT !.has_attachments = has_attachments]
     ELSE effects[i]]

\* The tasks that start _do_preprocess_event.
PreprocessEntries == {"preprocess_event", "preprocess_event_from_reprocessing"}

\* What the task passes to _do_preprocess_event as has_attachments:
\* preprocess_event its argument, preprocess_event_from_reprocessing
\* nothing, which leaves the default.
PassedHasAttachments(entry, has_attachments) ==
  IF entry = "preprocess_event" THEN has_attachments ELSE FALSE

\* A run ends: what it leaves behind.
Finish(r, d, store) ==
  /\ run' = r
  /\ db' = d
  /\ event_processing_store' = store

\* preprocess_event / preprocess_event_from_reprocessing: one run of
\* _do_preprocess_event.  The data is passed in or looked up under the
\* cache key; a project passed in is the event's project (line 165).
PreprocessEvent ==
  /\ run.op = "none"
  /\ \E cache_key \in 0..MaxCacheKeys, data_given \in BOOLEAN,
        entry \in PreprocessEntries, has_attachments \in BOOLEAN :
       LET found == data_given \/ StoreGet(event_processing_store, cache_key) # "null"
       IN \E platforms \in (IF found THEN 0..MaxPlatforms ELSE {0}) :
          \E killswitch \in (IF platforms > 0 THEN BOOLEAN ELSE {FALSE}) :
          \E should_process \in (IF found /\ platforms = 0 THEN BOOLEAN ELSE {FALSE}) :
            Finish([NullRun EXCEPT
                      !.op = "_do_preprocess_event", !.entry = entry,
                      !.cache_key = cache_key, !.has_attachments = has_attachments,
                      !.data_given = data_given, !.found = found,
                      !.platforms = platforms, !.killswitch = killswitch,
                      !.should_process = should_process, !.before = db,
                      !.store_before = event_processing_store,
                      !.effects =
                        Carry(do_preprocess_event(cache_key, found, platforms,
                                                  killswitch, should_process),
                              PassedHasAttachments(entry, has_attachments))],
                   db, event_processing_store)
  /\ UNCHANGED <<enhancer_vars, profiling, grouping_info, failing>>

\* The outcome of create_failed_event: how it ended, the database and the
\* processing store after it, and its effects.
FailedOutcome(outcome, d, store, effects) ==
  [outcome |-> outcome, db |-> d, store |-> store, effects |-> effects]

\* Lines 653-666: the notification, where the hint is not set.
Notified(d) ==
  IF d.sent_failed_event_hint = "true" THEN d
  ELSE [d EXCEPT !.activities = @ + 1, !.since_clear = @ + 1,
                 !.sent_failed_event_hint = "true"]

NotifyEffects(d, cache_key) ==
  IF d.sent_failed_event_hint = "true" THEN <<>>
  ELSE <<Effect("create_activity", "null", cache_key, "create_failed_event"),
         Effect("set_option", "null", cache_key, "create_failed_event")>>

\* delete_raw_event(project_id, event_id) with an event_id: the rows of
\* the event go; the hint is set to False where both option rows exist
\* (the row of sentry:reprocessing_active exists while the option is on)
\* and a ReprocessingReport of the event is found after the deletion
\* (report_meanwhile: another worker has created one since).
delete_raw_event(d, report_meanwhile) ==
  IF report_meanwhile /\ d.reprocessing_active /\ d.sent_failed_event_hint # "unset"
  THEN [d EXCEPT !.sent_failed_event_hint = "false", !.since_clear = 0]
  ELSE d

DeleteRawEventEffects(d, cache_key, report_meanwhile) ==
  <<Effect("delete_raw_event", "null", cache_key, "delete_raw_event"),
    Effect("delete_reprocessing_report", "null", cache_key, "delete_raw_event")>>
  \o (IF report_meanwhile /\ d.reprocessing_active /\ d.sent_failed_event_hint # "unset"
      THEN <<Effect("set_option", "null", cache_key, "delete_raw_event")>>
      ELSE <<>>)

\* A create_failed_event that reports a failed event although reprocessing
\* is not active.
create_failed_event_inactive_fails(d, store, cache_key, supports, reprocessed, reprocessing_rev, report_meanwhile) ==
  IF ~supports \/ reprocessed
  THEN FailedOutcome("false", d, store, <<>>)
  ELSE IF d.reprocessing_active /\ d.revision # reprocessing_rev
  THEN FailedOutcome("retry", d, store, <<>>)
  ELSE FailedOutcome("true", Notified(d), store, NotifyEffects(d, cache_key))

\* A create_failed_event that sends the notification before it looks at
\* the revision.
create_failed_event_notify_first(d, store, cache_key, supports, reprocessed, reprocessing_rev, report_meanwhile) ==
  IF ~supports \/ reprocessed
  THEN FailedOutcome("false", d, store, <<>>)
  ELSE IF d.reprocessing_active /\ d.revision # reprocessing_rev
  THEN FailedOutcome("retry", Notified(d), store, NotifyEffects(d, cache_key))
  ELSE FailedOutcome("false", Notified(d), store, NotifyEffects(d, cache_key))

\* create_failed_event(cache_key, data, project_id, issues, event_id,
\* start_time, reprocessing_rev) on the database d and the store.
create_failed_event(d, store, cache_key, supports, reprocessed, reprocessing_rev, report_meanwhile) ==
  LET by == "create_failed_event"
      reprocessing_active == d.reprocessing_active
      d1 == Notified(d)
      e1 == NotifyEffects(d, cache_key)
      d2 == delete_raw_event(d1, report_meanwhile)
      e2 == e1 \o DeleteRawEventEffects(d1, cache_key, report_meanwhile)
  IN IF ~supports THEN FailedOutcome("false", d, store, <<>>)
     ELSE IF reprocessed THEN FailedOutcome("false", d, store, <<>>)
     ELSE IF reprocessing_active /\ d.revision # reprocessing_rev
     THEN FailedOutcome("retry", d, store, <<>>)
     ELSE IF ~reprocessing_active THEN FailedOutcome("false", d1, store, e1)
     ELSE IF StoreGet(store, cache_key) = "null" THEN FailedOutcome("true", d2, store, e2)
     ELSE FailedOutcome("true", d2, [store EXCEPT ![cache_key] = "null"],
            e2 \o <<Effect("create_raw_event", "null", cache_key, by),
                    Effect("record_processing_issue", "null", cache_key, by),
                    Effect("delete_by_key", "null", cache_key, by)>>)

\* A continuation that hands the save task the cache key the run was given.
StoreAndSave_original_key(r, d, store) ==
  \E k \in CacheKeys :
    Finish([r EXCEPT !.returned_key = k,
                     !.effects = @ \o Carry(<<Effect("store", "null", k, "do_process_event"),
                                               submit_save_event(r.cache_key, "do_process_event")>>,
                                             r.has_attachments)],
           d, [store EXCEPT ![k] = "normalized"])

\* Lines 477-479: the re-normalized event is stored, the store returns a
\* cache key, and _continue_to_save_event submits the save task with it.
StoreAndSave(r, d, store) ==
  \E k \in CacheKeys :
    Finish([r EXCEPT !.returned_key = k,
                     !.effects = @ \o Carry(<<Effect("store", "null", k, "do_process_event"),
                                               submit_save_event(k, "do_process_event")>>,
                                             r.has_attachments)],
           d, [store EXCEPT ![k] = "normalized"])

\* Lines 467-475: the event starts again at _do_preprocess_event, with the
\* same cache key and the data of this run; has_attachments is not among
\* the arguments of the call, which leaves the default.
Restart(r, d, store) ==
  \E platforms \in 0..MaxPlatforms :
  \E killswitch \in (IF platforms > 0 THEN BOOLEAN ELSE {FALSE}) :
  \E should_process \in (IF platforms = 0 THEN BOOLEAN ELSE {FALSE}) :
    Finish([r EXCEPT !.platforms = platforms, !.killswitch = killswitch,
                     !.should_process = should_process,
                     !.effects = @ \o <<Effect("restart", "null", r.cache_key, "do_process_event")>>
                                   \o Carry(do_preprocess_event(r.cache_key, TRUE, platforms,
                                                                killswitch, should_process),
                                            FALSE)],
           d, store)

\* A handler of RetryProcessing without its return.
ProcessFailed_retry_falls_through(r) ==
  \E supports \in BOOLEAN :
  \E reprocessed \in (IF supports THEN BOOLEAN ELSE {FALSE}) :
  \E bump \in (IF supports /\ ~reprocessed /\ db.reprocessing_active
                  /\ db.revision < MaxRevision THEN BOOLEAN ELSE {FALSE}) :
  \E report_meanwhile \in (IF supports /\ ~reprocessed /\ db.reprocessing_active /\ ~bump
                           THEN BOOLEAN ELSE {FALSE}) :
    LET d0 == IF bump THEN [db EXCEPT !.revision = @ + 1] ELSE db
        f == create_failed_event(d0, event_processing_store, r.cache_key, supports,
                                 reprocessed, db.revision, report_meanwhile)
        r2 == [r EXCEPT !.supports = supports, !.reprocessed = reprocessed, !.bump = bump,
                        !.report_meanwhile = report_meanwhile, !.failed = f.outcome,
                        !.effects = f.effects]
    IN IF f.outcome = "true" THEN Finish(r2, f.db, f.store)
       ELSE StoreAndSave(r2, f.db, f.store)

\* Lines 450-475: the event has processing issues.  The revision read at
\* line 378 is that of the database as the run found it; bump: the
\* revision has changed while the event was processed.
ProcessFailed(r) ==
  \E supports \in BOOLEAN :
  \E reprocessed \in (IF supports THEN BOOLEAN ELSE {FALSE}) :
  \E bump \in (IF supports /\ ~reprocessed /\ db.reprocessing_active
                  /\ db.revision < MaxRevision THEN BOOLEAN ELSE {FALSE}) :
  \E report_meanwhile \in (IF supports /\ ~reprocessed /\ db.reprocessing_active /\ ~bump
                           THEN BOOLEAN ELSE {FALSE}) :
    LET d0 == IF bump THEN [db EXCEPT !.revision = @ + 1] ELSE db
        f == create_failed_event(d0, event_processing_store, r.cache_key, supports,
                                 reprocessed, db.revision, report_meanwhile)
        r2 == [r EXCEPT !.supports = supports, !.reprocessed = reprocessed, !.bump = bump,
                        !.report_meanwhile = report_meanwhile, !.failed = f.outcome,
                        !.effects = f.effects]
    IN IF f.outcome = "true" THEN Finish(r2, f.db, f.store)
       ELSE IF f.outcome = "retry" THEN Restart(r2, f.db, f.store)
       ELSE StoreAndSave(r2, f.db, f.store)

\* What may have changed the event in this run: process_stacktraces or a
\* plugin's preprocessor (its result or its exception).
ChangedBy == {"nothing", "stacktraces", "plugin"}

\* process_event / process_event_proguard / process_event_from_reprocessing:
\* one run of do_process_event.  disabled is the answer of
\* is_process_disabled, issues whether the re-normalized event has
\* processing issues.
DoProcessEvent ==
  /\ run.op = "none"
  /\ db.activities < MaxActivities
  /\ \E cache_key \in CacheKeys, data_has_changed \in BOOLEAN, has_attachments \in BOOLEAN :
       LET by == "do_process_event"
           r0 == [NullRun EXCEPT
                    !.op = "do_process_event", !.entry = "process_event",
                    !.cache_key = cache_key, !.has_attachments = has_attachments,
                    !.data_has_changed = data_has_changed, !.before = db,
                    !.store_before = event_processing_store,
                    !.found = StoreGet(event_processing_store, cache_key) # "null"]
       IN IF ~r0.found
          THEN Finish(r0, db, event_processing_store)
          ELSE \E disabled \in BOOLEAN :
                 IF disabled
                 THEN Finish([r0 EXCEPT !.disabled = TRUE,
                                        !.effects = Carry(<<submit_save_event(cache_key, by)>>,
                                                          has_attachments)],
                             db, event_processing_store)
                 ELSE \E changed_by \in ChangedBy :
                        LET has_changed == data_has_changed \/ changed_by # "nothing"
                            r1 == [r0 EXCEPT !.changed_by = changed_by,
                                             !.has_changed = has_changed]
                        IN IF ~has_changed
                           THEN Finish([r1 EXCEPT !.effects = Carry(<<submit_save_event(cache_key, by)>>,
                                                                    has_attachments)],
                                       db, event_processing_store)
                           ELSE \E issues \in BOOLEAN :
                                  IF issues
                                  THEN ProcessFailed([r1 EXCEPT !.issues = TRUE])
                                  ELSE StoreAndSave(r1, db, event_processing_store)
  /\ UNCHANGED <<enhancer_vars, profiling, grouping_info, failing>>

\* The ingest consumer puts an event into the processing store.
CacheEvent ==
  /\ run.op = "none"
  /\ \E k \in CacheKeys :
       /\ event_processing_store[k] = "null"
       /\ event_processing_store' = [event_processing_store EXCEPT ![k] = "raw"]
  /\ UNCHANGED <<enhancer_vars, profiling, grouping_info, db, run, failing>>

\* An entry of the processing store expires.
ExpireKey ==
  /\ run.op = "none"
  /\ \E k \in CacheKeys :
       /\ event_processing_store[k] # "null"
       /\ event_processing_store' = [event_processing_store EXCEPT ![k] = "null"]
  /\ UNCHANGED <<enhancer_vars, profiling, grouping_info, db, run, failing>>

\* The project option sentry:reprocessing_active is switched.
SetReprocessingActive ==
  /\ run.op = "none"
  /\ db' = [db EXCEPT !.reprocessing_active = ~@]
  /\ UNCHANGED <<enhancer_vars, profiling, grouping_info, event_processing_store, run, failing>>

\* The task has ended; the worker takes the next one.
ReturnRun ==
  /\ run.op # "none"
  /\ run' = NullRun
  /\ UNCHANGED <<enhancer_vars, profiling, grouping_info, event_processing_store, db, failing>>

StoreNext ==
  \/ PreprocessEvent
  \/ DoProcessEvent
  \/ CacheEvent
  \/ ExpireKey
  \/ SetReprocessingActive
  \/ ReturnRun

StoreSpec == Init /\ [][StoreNext]_vars

\* ------------------------------------------------------------ _do_save_event

\* The data of a save run: None ("null"), the empty dictionary ("empty") or
\* an event ("event").
DataKinds == {"null", "empty", "event"}

\* How the try block of _do_save_event ends: the event is saved, the
\* load-shed killswitch or EventManager.save raises HashDiscarded, or save
\* raises another exception.
SaveOutcomes == {"saved", "shed", "HashDiscarded", "Exception"}

\* Lines 738-745: event_id and project_id are read from the data where
\* they were not given.  The exception this raises, or "none".
SaveLookupExc(data, event_id_given, project_id_given) ==
  IF ~event_id_given /\ data = "empty" THEN "KeyError"
  ELSE IF ~project_id_given /\ data = "null" THEN "AttributeError"
  ELSE IF ~project_id_given /\ data = "empty" THEN "KeyError"
  ELSE "none"

\* Lines 750-751 with delete_raw_event (lines 582-609): without an
\* event_id the function logs an error and returns.
SaveDeleteRawEvent(d, has_event_id, report_meanwhile) ==
  IF has_event_id THEN delete_raw_event(d, report_meanwhile) ELSE d

SaveDeleteRawEventEffects(d, cache_key, has_event_id, report_meanwhile) ==
  IF has_event_id THEN DeleteRawEventEffects(d, cache_key, report_meanwhile)
  ELSE <<Effect("log_error", "null", cache_key, "delete_raw_event")>>

\* Lines 769-806: the try block and its handlers, then the finally block.
SaveTryEffects(cache_key, has_attachments, outcome, k) ==
  LET by == "_do_save_event"
  IN (IF outcome = "saved"
      THEN <<Effect("save", "null", cache_key, by), Effect("store", "null", k, by)>>
      ELSE IF outcome = "HashDiscarded" \/ outcome = "shed"
      THEN (IF outcome = "HashDiscarded" THEN <<Effect("save", "null", cache_key, by)>> ELSE <<>>)
           \o (IF cache_key # 0 THEN <<Effect("delete_by_key", "null", cache_key, by)>> ELSE <<>>)
      ELSE <<Effect("save", "null", cache_key, by)>>)
     \o <<Effect("mark_event_reprocessed", "null", cache_key, by)>>
     \o (IF cache_key # 0 /\ has_attachments
         THEN <<Effect("attachment_cache_delete", "null", cache_key, by)>>
         ELSE <<>>)

\* The processing store after the try block.
SaveTryStore(store, cache_key, outcome, k) ==
  IF outcome = "saved" THEN [store EXCEPT ![k] = "normalized"]
  ELSE IF (outcome = "HashDiscarded" \/ outcome = "shed") /\ cache_key # 0
  THEN [store EXCEPT ![cache_key] = "null"]
  ELSE store

\* save_event / save_event_attachments / save_event_highcpu: one run of
\* _do_save_event.  emptied: the store gives the empty dictionary for the
\* key; supports is the answer of event_supports_reprocessing(data).
DoSaveEvent ==
  /\ run.op = "none"
  /\ \E cache_key \in 0..MaxCacheKeys, data_given \in DataKinds,
        event_id_given \in BOOLEAN, project_id_given \in BOOLEAN,
        has_attachments \in BOOLEAN :
     \E emptied \in (IF data_given = "null" /\ StoreGet(event_processing_store, cache_key) # "null"
                     THEN BOOLEAN ELSE {FALSE}) :
       LET by == "_do_save_event"
           data == IF data_given # "null" THEN data_given
                   ELSE IF StoreGet(event_processing_store, cache_key) = "null" THEN "null"
                   ELSE IF emptied THEN "empty" ELSE "event"
           exc == SaveLookupExc(data, event_id_given, project_id_given)
           has_event_id == event_id_given \/ data = "event"
           r0 == [NullRun EXCEPT
                    !.op = "_do_save_event", !.entry = "save_event",
                    !.cache_key = cache_key, !.data_given = data_given # "null",
                    !.has_attachments = has_attachments, !.data = data,
                    !.found = data # "null",
                    !.event_id_given = event_id_given,
                    !.project_id_given = project_id_given,
                    !.before = db, !.store_before = event_processing_store]
       IN IF exc # "none"
          THEN Finish([r0 EXCEPT !.exc = exc], db, event_processing_store)
          ELSE
            \E supports \in (IF data = "event" THEN BOOLEAN ELSE {TRUE}) :
            \E had_report \in (IF supports /\ has_event_id THEN BOOLEAN ELSE {FALSE}) :
            \E report_meanwhile \in (IF supports /\ has_event_id /\ db.reprocessing_active
                                        /\ db.sent_failed_event_hint # "unset"
                                     THEN BOOLEAN ELSE {FALSE}) :
              LET d1 == IF supports
                        THEN SaveDeleteRawEvent(db, has_event_id, report_meanwhile)
                        ELSE db
                  e1 == IF supports
                        THEN SaveDeleteRawEventEffects(db, cache_key, has_event_id,
                                                       report_meanwhile)
                        ELSE <<>>
                  r1 == [r0 EXCEPT !.supports = supports, !.had_report = had_report,
                                   !.report_meanwhile = report_meanwhile]
              IN IF data # "event"
                 THEN Finish([r1 EXCEPT !.effects = e1], d1, event_processing_store)
                 ELSE \E outcome \in SaveOutcomes, k \in CacheKeys :
                        /\ outcome # "saved" => k = 1
                        /\ Finish([r1 EXCEPT
                                     !.outcome = outcome,
                                     !.returned_key = IF outcome = "saved" THEN k ELSE 0,
                                     !.exc = IF outcome = "Exception" THEN "Exception"
                                             ELSE "none",
                                     !.effects = e1 \o SaveTryEffects(cache_key, has_attachments,
                                                                      outcome, k)],
                                  d1, SaveTryStore(event_processing_store, cache_key,
                                                   outcome, k))
  /\ UNCHANGED <<enhancer_vars, profiling, grouping_info, failing>>

\* Lines 653-666, in a run of create_failed_event for another event of the
\* project: the notification is sent and the hint set.
NotifyFailedEvent ==
  /\ run.op = "none"
  /\ db.activities < MaxActivities
  /\ db.sent_failed_event_hint # "true"
  /\ db' = Notified(db)
  /\ UNCHANGED <<enhancer_vars, profiling, grouping_info, event_processing_store, run, failing>>

SaveNext ==
  \/ DoSaveEvent
  \/ CacheEvent
  \/ ExpireKey
  \/ SetReprocessingActive
  \/ NotifyFailedEvent
  \/ ReturnRun

SaveSpec == Init /\ [][SaveNext]_vars

\* ---------------------------------- create_failed_event, step by step

\* A worker enters create_failed_event for an event that supports
\* reprocessing, is not reprocessed and whose revision has not changed:
\* it is past line 651.
FailEnter ==
  /\ db.activities < MaxActivities
  /\ \E w \in FailingWorkers :
       /\ failing[w].pc = "idle"
       /\ failing' = [failing EXCEPT ![w] = [NullFailing EXCEPT !.pc = "get_value"]]
  /\ UNCHANGED <<enhancer_vars, profiling, grouping_info, event_processing_store, db, run>>

\* Lines 655-658: sent_notification = ProjectOption.objects.get_value(...)
FailGetValue ==
  /\ \E w \in FailingWorkers :
       /\ failing[w].pc = "get_value"
       /\ LET sent_notification == db.sent_failed_event_hint = "true"
          IN failing' = [failing EXCEPT ![w] =
                           [@ EXCEPT !.sent_notification =
                                        IF sent_notification THEN "true" ELSE "false",
                                     !.pc = IF sent_notification THEN "done" ELSE "create"]]
  /\ UNCHANGED <<enhancer_vars, profiling, grouping_info, event_processing_store, db, run>>

\* Lines 659-665: Activity.objects.create(...).send_notification()
FailCreateActivity ==
  /\ \E w \in FailingWorkers :
       /\ failing[w].pc = "create"
       /\ failing' = [failing EXCEPT ![w] = [@ EXCEPT !.created = TRUE, !.pc = "set_value"]]
  /\ db' = [db EXCEPT !.activities = @ + 1, !.since_clear = @ + 1]
  /\ UNCHANGED <<enhancer_vars, profiling, grouping_info, event_processing_store, run>>

\* Line 666: ProjectOption.objects.set_value(project, "sentry:sent_failed_event_hint", True)
FailSetValue ==
  /\ \E w \in FailingWorkers :
       /\ failing[w].pc = "set_value"
       /\ failing' = [failing EXCEPT ![w] = [@ EXCEPT !.pc = "done"]]
  /\ db' = [db EXCEPT !.sent_failed_event_hint = "true"]
  /\ UNCHANGED <<enhancer_vars, profiling, grouping_info, event_processing_store, run>>

\* The call is over.
FailReturn ==
  /\ \E w \in FailingWorkers :
       /\ failing[w].pc = "done"
       /\ failing' = [failing EXCEPT ![w] = NullFailing]
  /\ UNCHANGED <<enhancer_vars, profiling, grouping_info, event_processing_store, db, run>>

\* delete_raw_event, lines 595-608: the hint is cleared.
HintCleared ==
  /\ db.sent_failed_event_hint = "true"
  /\ db' = [db EXCEPT !.sent_failed_event_hint = "false", !.since_clear = 0]
  /\ UNCHANGED <<enhancer_vars, profiling, grouping_info, event_processing_store, run, failing>>

HintNext ==
  \/ FailEnter
  \/ FailGetValue
  \/ FailCreateActivity
  \/ FailSetValue
  \/ FailReturn
  \/ HintCleared

HintSpec == Init /\ [][HintNext]_vars

\* ------------------------------------------------------- profiling rules

\* The tokens that start with one of VALID_PROFILING_MATCHER_PREFIXES:
\* two matchers and a word that only starts like one.
ProfilingPrefixTokens == {"function:f", "module:m", "pathological"}

\* The tokens that the rule parser reads as a matcher.
ProfilingMatcherTokens == {"function:f", "module:m", "family:native"}

VALID_PROFILING_ACTIONS_SET == {"+app", "-app"}

\* The lines of a profiling configuration, each as its tokens
\* (rule.strip().split()); <<>> is a blank line, a line whose first token
\* starts with "#" is a comment.
ProfilingLineUniverse ==
  { <<"function:f", "+app">>,
    <<"function:f", "module:m", "-app">>,
    <<"family:native", "+app">>,
    <<"function:f", "+group">>,
    <<"function:f", "+app", "-app">>,
    <<"pathological", "+app">>,
    <<"function:f">>,
    <<"+app">>,
    <<"-app">>,
    <<"#", "function:f", "+app">>,
    <<>> }

\* matcher.startswith(VALID_PROFILING_MATCHER_PREFIXES) for every matcher
is_valid_profiling_matcher(matchers) ==
  \A i \in 1..Len(matchers) : matchers[i] \in ProfilingPrefixTokens

is_valid_profiling_action(action) == action \in VALID_PROFILING_ACTIONS_SET

\* The test of one line in keep_profiling_rules: *matchers, action = rule.split()
KeepsProfilingRule(rule) ==
  /\ rule # <<>>
  /\ rule[1] # "#"
  /\ is_valid_profiling_matcher(SubSeq(rule, 1, Len(rule) - 1))
  /\ is_valid_profiling_action(rule[Len(rule)])

\* keep_profiling_rules(config): the lines kept, in order.
keep_profiling_rules(config) == SelectSeq(config, KeepsProfilingRule)

\* A call of keep_profiling_rules on a configuration.
KeepProfilingRules ==
  /\ ~profiling.called
  /\ \E config \in SeqsUpTo(ProfilingLineUniverse, MaxProfilingLines) :
       profiling' = [called |-> TRUE, config |-> config,
                     ret |-> keep_profiling_rules(config)]
  /\ UNCHANGED <<enhancer_vars, grouping_info, event_processing_store, db, run, failing>>

\* The caller takes the text.
ReturnProfilingRules ==
  /\ profiling.called
  /\ profiling' = NullProfiling
  /\ UNCHANGED <<enhancer_vars, grouping_info, event_processing_store, db, run, failing>>

ProfilingNext ==
  \/ KeepProfilingRules
  \/ ReturnProfilingRules

ProfilingSpec == Init /\ [][ProfilingNext]_vars

\* ------------------------------------------------------------- claims

\* What the claims read of the last call.
Constructed == call.op = "from_rules_text" /\ IsWellFormedText(call.text)

Decoded == call.op = "from_base64_string"

Applied == call.op = "apply_category_and_updated_in_app_to_frames"

Looked == call.op = "get_category_and_in_app_for_frame"

Assembled == call.op = "assemble_stacktrace_component"

\* The concatenation of a sequence of sequences.
RECURSIVE Flatten(_)
Flatten(ss) == IF ss = <<>> THEN <<>> ELSE Head(ss) \o Flatten(Tail(ss))

\* The rules of the registered bases among `bases`, in list order.
RegisteredBaseRules(bases) ==
  LET known == SelectSeq(bases, LAMBDA b : b \in DOMAIN ENHANCEMENT_BASES)
  IN Flatten([i \in 1..Len(known) |-> ENHANCEMENT_BASES[known[i]].rules])

HasUnknownBase(bases) == \E i \in 1..Len(bases) : bases[i] \notin DOMAIN ENHANCEMENT_BASES

\* C1: round trip.  Decoding the compact form of a rule set of version 2 or
\* 3 succeeds and returns a rule set with the same version, the same bases
\* and the same rules in the same order (for version 3 the same classifier
\* and contributes rules), hence the same engine rules.
C1_RoundTrip ==
  (Decoded /\ payload = base64_string(enh)) =>
     /\ call.exc = "none"
     /\ ret_enh.version = enh.version
     /\ ret_enh.bases = enh.bases
     /\ ret_enh.rules = enh.rules
     /\ ret_enh.classifier_rules = enh.classifier_rules
     /\ ret_enh.contributes_rules = enh.contributes_rules
     /\ ret_enh.rust_enhancements = enh.rust_enhancements

\* C2: version gate.  Decoding a well-formed compact form whose version is
\* not in VERSIONS raises ValueError and returns no rule set, for versions
\* below and above the recognized ones.
C2_VersionGate ==
  (Decoded /\ payload.damage = "none" /\ ~InVersions(payload.structure[1])) =>
     (call.exc = "ValueError" /\ ret_enh = NullEnh)

NotLegacyFirst == Len(enh.bases) = 0 \/ ~StartsWithLegacy(enh.bases[1])

AssembledFor(variant_name) ==
  Assembled /\ call.exc = "none" /\ call.variant_name = variant_name

\* C4 as claimed: after assemble_stacktrace_component for the "app"
\* variant every frame component whose in_app is not true has
\* contributes = false, whatever the bases list of the rule set.
C4_InAppSuppression ==
  AssembledFor("app") =>
     \A i \in 1..Len(ret_stack.values) :
        ret_stack.values[i].in_app # "true" => ~ret_stack.values[i].contributes

\* C4 as amended: the same, for a rule set whose bases list is empty or
\* does not start with a "legacy" identifier.
C4_InAppSuppressionNotLegacy ==
  (AssembledFor("app") /\ NotLegacyFirst) =>
     \A i \in 1..Len(ret_stack.values) :
        ret_stack.values[i].in_app # "true" => ~ret_stack.values[i].contributes

\* A frame that is not in-app, that the engine lets contribute and that the
\* "app" variant has forced not to.
C4_Witness ==
  /\ AssembledFor("app")
  /\ NotLegacyFirst
  /\ \E i \in 1..Len(ret_stack.values) :
        /\ ret_stack.values[i].in_app # "true"
        /\ rust_results.components[i].contributes
        /\ ~ret_stack.values[i].contributes

NoInAppContributingFrame ==
  ~\E i \in 1..Len(ret_stack.values) :
      ret_stack.values[i].in_app = "true" /\ ret_stack.values[i].contributes

\* C5 as claimed: when the "app" variant is left with no frame that is both
\* in-app and contributing, the stacktrace component has contributes = false
\* and no hint, whatever the bases list of the rule set.
C5_Collapse ==
  (AssembledFor("app") /\ NoInAppContributingFrame) =>
     (~ret_stack.contributes /\ ret_stack.hint = "null")

\* C5 as amended: the same, for a rule set whose bases list is empty or
\* does not start with a "legacy" identifier.
C5_CollapseNotLegacy ==
  (AssembledFor("app") /\ NotLegacyFirst /\ NoInAppContributingFrame) =>
     (~ret_stack.contributes /\ ret_stack.hint = "null")

\* The engine returned contributes = true and a hint for the stacktrace,
\* and the component has neither.
C5_Witness ==
  /\ AssembledFor("app")
  /\ NotLegacyFirst
  /\ NoInAppContributingFrame
  /\ Len(ret_stack.values) > 0
  /\ rust_results.contributes
  /\ rust_results.hint # "null"
  /\ ~ret_stack.contributes
  /\ ret_stack.hint = "null"

\* The rules of every base of the list, in list order (a base the registry
\* does not hold has none), then the own rules.
ExpectedMerged(bases, text) ==
  Flatten([i \in 1..Len(bases) |->
             IF bases[i] \in DOMAIN ENHANCEMENT_BASES
             THEN ENHANCEMENT_BASES[bases[i]].rules ELSE <<>>])
    \o parse_enhancements(text)

\* C6: merge order.  The rules a constructed rule set of version 2 or 3
\* holds for evaluation are those of its bases, in list order, followed by
\* its own rules (for version 3: in each of the two families).
C6_MergeOrder ==
  Constructed =>
     LET expected == ExpectedMerged(call.bases, call.text)
     IN IF ret_enh.version <= 2
        THEN ret_enh.rust_enhancements = expected
        ELSE /\ ret_enh.rust_classifier_enhancements =
                  [i \in 1..Len(SelectSeq(expected, has_classifier_actions)) |->
                     as_classifier_rule(SelectSeq(expected, has_classifier_actions)[i])]
             /\ ret_enh.rust_contributes_enhancements =
                  [i \in 1..Len(SelectSeq(expected, has_contributes_actions)) |->
                     as_contributes_rule(SelectSeq(expected, has_contributes_actions)[i])]

\* The own rules of the rule set and the rules of its registered bases.
OwnRules == IF enh.version <= 2 THEN enh.rules ELSE enh.classifier_rules

BaseRules == RegisteredBaseRules(enh.bases)

SetsTarget(rule, frame, target) ==
  /\ RuleMatches(rule, frame)
  /\ \E k \in 1..Len(rule.actions) :
        IF target = "in_app" THEN rule.actions[k] \in {"+app", "-app"}
        ELSE rule.actions[k] = "category=ui"

SomeSetsTarget(rules, frame, target) ==
  \E k \in 1..Len(rules) : SetsTarget(rules[k], frame, target)

\* The value the last own rule that sets in_app gives a frame.
OwnInApp(frame) ==
  FoldClassifierRules(OwnRules, frame, [category |-> "null", in_app |-> "null"]).in_app

\* C7: own rules override base rules.  After the classifier pass, a frame
\* for which a base rule and an own rule both match and both set in_app has
\* the in_app value of the own rule.
C7_OwnRulesOverride ==
  Applied =>
     \A i \in 1..Len(event.frames) :
        (/\ SomeSetsTarget(BaseRules, call.before[i], "in_app")
         /\ SomeSetsTarget(OwnRules, call.before[i], "in_app"))
          => event.frames[i].in_app = OwnInApp(call.before[i])

\* out is the sub-sequence of the rules that have an action of the family,
\* each with its matchers and with its actions of the family only.
IsFamilySplit(out, rules, InFamily(_)) ==
  \E pos \in [1..Len(out) -> 1..Len(rules)] :
     /\ \A j, k \in 1..Len(out) : j < k => pos[j] < pos[k]
     /\ {pos[k] : k \in 1..Len(out)} =
          {i \in 1..Len(rules) : \E a \in 1..Len(rules[i].actions) : InFamily(rules[i].actions[a])}
     /\ \A k \in 1..Len(out) :
          /\ out[k].matchers = rules[pos[k]].matchers
          /\ out[k].actions = SelectSeq(rules[pos[k]].actions, InFamily)

\* C8: rule family split.  A version 3 rule set built from a list of rules
\* has as classifier_rules the sub-sequence of the rules with classifier
\* actions, each stripped to them, and as contributes_rules the
\* sub-sequence of the rules with contributes actions, each stripped to
\* them, both in the order of the list.
C8_FamilySplit ==
  (Constructed /\ ret_enh.version = 3) =>
     /\ IsFamilySplit(ret_enh.classifier_rules, parse_enhancements(call.text),
                      IsClassifierAction)
     /\ IsFamilySplit(ret_enh.contributes_rules, parse_enhancements(call.text),
                      IsContributesAction)

\* A version 3 rule set of two rules, the one mixed and in both lists, the
\* other in one list only.
C8_Witness ==
  /\ Constructed
  /\ ret_enh.version = 3
  /\ Len(call.text) = 2
  /\ \E i \in 1..2 : has_classifier_actions(ParseLine(call.text[i]))
                     /\ has_contributes_actions(ParseLine(call.text[i]))
  /\ Len(ret_enh.classifier_rules) # Len(ret_enh.contributes_rules)

\* The rule list the last call handed to the engine.
EvaluatedRules ==
  IF call.evaluated = "rust_enhancements" THEN enh.rust_enhancements ELSE <<>>

OnlyActions(rules, InFamily(_)) ==
  \A i \in 1..Len(rules) : \A k \in 1..Len(rules[i].actions) : InFamily(rules[i].actions[k])

\* C9: evaluation operates on split rule sets only.  The classifier pass
\* hands the engine the classifier rules, which have classifier actions
\* only, and the contribution pass the contributes rules, which have
\* contributes actions only.
C9_SplitOnly ==
  /\ (Applied \/ Looked) =>
        (call.evaluated # "null" /\ OnlyActions(EvaluatedRules, IsClassifierAction))
  /\ Assembled =>
        (call.evaluated # "null" /\ OnlyActions(EvaluatedRules, IsContributesAction))

\* C10: evaluation is total.  On a constructed rule set of version 2 or 3
\* the three evaluation methods end without raising.
C10_EvaluationTotal ==
  ((Applied \/ Looked \/ Assembled) /\ enh.version \in {2, 3}) => call.exc = "none"

\* C11: typed decode failure.  Every failure of from_base64_string on a
\* corrupt or truncated compact form, whatever the decoding stage that
\* fails, is a ValueError; no other exception type escapes.
C11_TypedDecodeFailure ==
  (Decoded /\ payload.damage # "none" /\ call.exc # "none") =>
     call.exc = "ValueError"

\* The compact form as the current encoder writes it, with zstd.
ZstdForm(p) == [p EXCEPT !.magic = "zstd"]

\* C18: compressor auto-detection.  from_base64_string reads a compact
\* form with zstd when its bytes start with the zstd magic number and with
\* zlib otherwise, so a structure compressed with zlib by the older encoder
\* decodes as the same structure compressed with zstd does: to the same rule
\* set, or to the same failure.
C18_CompressorAutoDetection ==
  (Decoded /\ payload.damage = "none" /\ payload.magic = "zlib") =>
     \E rust_ok \in BOOLEAN :
        LET exc == from_base64_string_exc(ZstdForm(payload), rust_ok)
        IN /\ call.exc = exc
           /\ ret_enh = IF exc = "none"
                        THEN from_base64_string(ZstdForm(payload), ENHANCEMENT_BASES)
                        ELSE NullEnh

\* A compact form compressed with zlib has been decoded to a rule set that
\* holds the rules and the bases of the rule set it was written from.
C18_Witness ==
  /\ Decoded
  /\ payload.damage = "none"
  /\ payload.magic = "zlib"
  /\ call.exc = "none"
  /\ Len(ret_enh.rules) > 0
  /\ ret_enh.rules = enh.rules
  /\ ret_enh.bases = enh.bases

\* C16: registry immutability.  After module load no operation adds,
\* removes or replaces an entry of ENHANCEMENT_BASES or changes the rules of
\* a registered base rule set: the registry is what _load_configs built.
C16_RegistryImmutable == ENHANCEMENT_BASES = LoadConfigs

\* A rule set has been built on a registered base, its compact form has been
\* written, and get_default_enhancements has returned a registered rule set.
C16_Witness ==
  /\ call.op = "get_default_enhancements"
  /\ ret_enh = ENHANCEMENT_BASES[call.bases[1]]
  /\ \E i \in 1..Len(enh.bases) : enh.bases[i] \in DOMAIN ENHANCEMENT_BASES
  /\ payload.present

\* C19: a parse failure rejects the configuration.  from_rules_text on a
\* malformed rule text fails with InvalidEnhancerConfig and returns no rule
\* set: no rule set exists from which the malformed rule was dropped.
C19_ParseFailureRejects ==
  (call.op = "from_rules_text" /\ ~IsWellFormedText(call.text)) =>
     /\ call.exc = "InvalidEnhancerConfig"
     /\ ret_enh = NullEnh
     /\ enh = NullEnh

\* A text of a well-formed and a malformed line has been rejected.
C19_Witness ==
  /\ call.op = "from_rules_text"
  /\ Len(call.text) = 2
  /\ IsWellFormedLine(call.text[1])
  /\ ~IsWellFormedLine(call.text[2])
  /\ call.exc = "InvalidEnhancerConfig"
  /\ ret_enh = NullEnh

\* C20: version gate as a configuration error.  Decoding a well-formed
\* compact form whose version is not in VERSIONS fails with
\* ConfigurationError and leaves the registry and the rule set the compact
\* form was written from as they were.
C20_VersionGateConfigurationError ==
  (Decoded /\ payload.damage = "none" /\ ~InVersions(payload.structure[1])) =>
     /\ call.exc = "ConfigurationError"
     /\ ENHANCEMENT_BASES = LoadConfigs
     /\ enh # NullEnh

\* What the engine gave the classifier pass for the frames it was called on.
ClassifierResults == apply_modifications_to_frames(enh.rust_enhancements, call.before)

\* C12: independent targets in the classifier pass.  For each frame the
\* pass writes in_app when and only when the engine's in_app result is not
\* null, and data.category when and only when the category result is not
\* null; a null result for one target leaves the value the frame had for
\* it, whatever the other result is.  A pass that raises writes nothing.
C12_IndependentTargets ==
  Applied =>
     IF call.exc = "none"
     THEN \A i \in 1..Len(event.frames) :
             /\ event.frames[i].in_app =
                   IF ClassifierResults[i].in_app = "null"
                   THEN call.before[i].in_app ELSE ClassifierResults[i].in_app
             /\ event.frames[i].category =
                   IF ClassifierResults[i].category = "null"
                   THEN call.before[i].category ELSE ClassifierResults[i].category
     ELSE event.frames = call.before

\* A pass over two frames: the one got a new in_app and kept its category,
\* the other got a category and kept its in_app of null.
C12_Witness ==
  /\ Applied
  /\ call.exc = "none"
  /\ Len(event.frames) = 2
  /\ ClassifierResults[1].in_app # "null"
  /\ ClassifierResults[1].category = "null"
  /\ event.frames[1].in_app # call.before[1].in_app
  /\ event.frames[1].category = "unset"
  /\ ClassifierResults[2].in_app = "null"
  /\ ClassifierResults[2].category = "ui"
  /\ event.frames[2].in_app = "null"
  /\ event.frames[2].category = "ui"

\* C13: the classification operation returns its verdict.
\* get_category_and_in_app_for_frame returns the pair (category, in_app)
\* the rule set's classifier rules give the frame.
C13_ReturnsVerdict ==
  (Looked /\ call.exc = "none") =>
     LET expected == apply_modifications_to_frames(enh.rust_enhancements,
                                                   <<event.frames[call.frame]>>)[1]
     IN /\ ~call.returned.none
        /\ call.returned.category = expected.category
        /\ call.returned.in_app = expected.in_app

\* The frame component the strategy handed over for frame i of the event.
ComponentBefore(i) == FrameComponent(event.frames[i], i # call.ignored)

\* The hint explains a marking in or out of app.
ExplainsInApp(hint) == StartsWithMarkedInApp(hint) \/ StartsWithMarkedOutOfApp(hint)

\* C14: system variant.  After assemble_stacktrace_component for the
\* "system" variant every frame component has the contributes value the
\* engine returned for it, and the engine's hint unless that hint is empty
\* or starts with "marked in-app" or "marked out of app": then it keeps the
\* hint it had before the call.
C14_SystemVariant ==
  AssembledFor("system") =>
     \A i \in 1..Len(ret_stack.values) :
        LET rc == rust_results.components[i]
        IN /\ ret_stack.values[i].contributes = rc.contributes
           /\ ret_stack.values[i].hint =
                 IF rc.hint = "null" \/ ExplainsInApp(rc.hint)
                 THEN ComponentBefore(i).hint ELSE rc.hint

\* A "system" assembly of two frames: for the one the engine's hint tells
\* of a marking out of app and the component keeps its own hint, for the
\* other the engine's hint tells of a contributes change and is taken.
C14_Witness ==
  /\ AssembledFor("system")
  /\ Len(ret_stack.values) = 2
  /\ \E i, j \in 1..2 :
        /\ StartsWithMarkedOutOfApp(rust_results.components[i].hint)
        /\ ret_stack.values[i].hint = ComponentBefore(i).hint
        /\ rust_results.components[j].hint = "ignored by stack trace rule"
        /\ ret_stack.values[j].hint = "ignored by stack trace rule"
        /\ ~ret_stack.values[j].contributes

AloneFrames(w) ==
  IF workers[w].op = "apply" /\ HasAttr(enh, "rust_enhancements")
  THEN [i \in 1..Len(workers[w].input) |->
          ApplyResultToFrame(workers[w].input[i],
             apply_modifications_to_frames(enh.rust_enhancements, workers[w].input)[i])]
  ELSE workers[w].input

AloneStack(w) ==
  IF workers[w].op = "assemble" /\ HasAttr(enh, "rust_enhancements")
  THEN LET input == workers[w].input
           frame_components == [i \in 1..Len(input) |-> FrameComponent(input[i], TRUE)]
           rust_components ==
             RustAssembleComponents(enh.rust_enhancements, input,
                [i \in 1..Len(input) |-> [contributes |-> TRUE, hint |-> "null"]])
       IN StacktraceComponent(enh, "app", frame_components, rust_components,
             [components |-> rust_components,
              contributes |-> \E i \in 1..Len(rust_components) : rust_components[i].contributes,
              hint |-> "null"])
  ELSE NullStack

AloneExc == IF HasAttr(enh, "rust_enhancements") THEN "none" ELSE "AttributeError"

\* C17: concurrent evaluation.  Two workers run
\* apply_category_and_updated_in_app_to_frames or
\* assemble_stacktrace_component at the same time, each on its own
\* stacktrace, against one shared rule set: under every interleaving each
\* worker ends with the frames, the stacktrace component and the exception
\* it would have had alone, and no step changes the rule set or the
\* registry.
C17_ConcurrentEvaluation ==
  /\ [](\A w \in Workers :
          workers[w].pc = "done" =>
             /\ workers[w].frames = AloneFrames(w)
             /\ workers[w].ret = AloneStack(w)
             /\ workers[w].exc = AloneExc)
  /\ [][enh' = enh /\ ENHANCEMENT_BASES' = ENHANCEMENT_BASES]_vars

\* Both workers are done, the one with a classifier pass that changed its
\* frame, the other with an assembly of the component of its frame.
C17_Witness ==
  /\ workers[1].pc = "done"
  /\ workers[2].pc = "done"
  /\ workers[1].op = "apply"
  /\ workers[1].frames # workers[1].input
  /\ workers[1].frames[1].in_app # workers[1].input[1].in_app
  /\ workers[2].op = "assemble"
  /\ workers[2].ret.present
  /\ Len(workers[2].ret.values) = 1

\* The number of returned frame components with the given flags.
TallyOf(in_app, contributes) ==
  Cardinality({i \in 1..Len(ret_stack.values) :
                 /\ (ret_stack.values[i].in_app = "true") = in_app
                 /\ ret_stack.values[i].contributes = contributes})

\* C21 (frame tally): the frame_counts of an assembled stacktrace component
\* count every frame exactly once, under the key that matches the frame's
\* in_app flag and its final contributes value; the four counts add up to
\* the number of frame components.
C21_FrameTally ==
  (Assembled /\ call.exc = "none") =>
    /\ ret_stack.frame_counts["in_app_contributing_frames"] = TallyOf(TRUE, TRUE)
    /\ ret_stack.frame_counts["in_app_non_contributing_frames"] = TallyOf(TRUE, FALSE)
    /\ ret_stack.frame_counts["system_contributing_frames"] = TallyOf(FALSE, TRUE)
    /\ ret_stack.frame_counts["system_non_contributing_frames"] = TallyOf(FALSE, FALSE)
    /\ ret_stack.frame_counts["in_app_contributing_frames"]
         + ret_stack.frame_counts["in_app_non_contributing_frames"]
         + ret_stack.frame_counts["system_contributing_frames"]
         + ret_stack.frame_counts["system_non_contributing_frames"]
       = Len(event.frames)

\* An app-variant assembly of two frames in which a frame the engine let
\* contribute is tallied as a system frame that does not.
C21_Witness ==
  /\ AssembledFor("app")
  /\ Len(ret_stack.values) = 2
  /\ \E i \in 1..2 : /\ rust_results.components[i].contributes
                      /\ ~ret_stack.values[i].contributes
  /\ ret_stack.frame_counts["system_non_contributing_frames"] >= 1
  /\ ret_stack.frame_counts["in_app_contributing_frames"] = 1

\* C22 (client_in_app keeps the client's value): after the classifier pass
\* has been applied to a frame any number of times, data.client_in_app is
\* the in_app value the frame had before the first application (true, false
\* or null), even when a rule changed in_app in between.
C22_ClientInAppKept ==
  \A i \in 1..Len(event.frames) :
    event.frames[i].client_in_app # "unset" =>
      event.frames[i].client_in_app = event.received[i].in_app

\* A second pass over a frame that was sent with in_app null and marked out
\* of app by the first pass: client_in_app is now false.
C22_Overwritten ==
  /\ Applied /\ call.exc = "none"
  /\ \E i \in 1..Len(event.frames) :
       /\ event.received[i].in_app = "null"
       /\ call.before[i].client_in_app = "null"
       /\ call.before[i].in_app = "false"
       /\ event.frames[i].client_in_app = "false"

\* C23 (each variant entry knows its key): get_grouping_info_from_variants
\* returns a dictionary with exactly the keys of the variants, and the
\* entry stored under key k has entry["key"] = k, whatever fields the
\* variant's own as_dict() contains.
C23_EntryKnowsKey ==
  grouping_info.called =>
    /\ DOMAIN grouping_info.ret = DOMAIN grouping_info.variants
    /\ \A k \in DOMAIN grouping_info.ret : grouping_info.ret[k]["key"] = k

\* What the claims read of the last run of a store task.
Preprocessed ==
  \/ run.op = "_do_preprocess_event"
  \/ run.op = "do_process_event" /\ run.failed = "retry"

Processed == run.op = "do_process_event" /\ run.found

\* The positions of the run's effects with the given operation, done by
\* the given function.
EffectsOf(op, by) ==
  {i \in 1..Len(run.effects) : run.effects[i].op = op /\ run.effects[i].by = by}

\* The positions at which the run submitted a save task.
SavesBy(by) ==
  {i \in EffectsOf("submit", by) : run.effects[i].task = "save"}

\* The positions at which the run wrote the processing store.
StoreWrites == EffectsOf("store", "do_process_event")

\* The event was changed by an earlier task, by stacktrace processing or by
\* a plugin's preprocessor.
EventChanged == run.data_has_changed \/ run.changed_by # "nothing"

\* The store is written, then the save task is submitted once with the key
\* the store returned.
StoredThenSaved ==
  /\ Cardinality(StoreWrites) = 1
  /\ Cardinality(SavesBy("do_process_event")) = 1
  /\ \A i \in StoreWrites : \A j \in SavesBy("do_process_event") :
       /\ i < j
       /\ run.effects[j].cache_key = run.effects[i].cache_key
       /\ run.effects[i].cache_key = run.returned_key
       /\ event_processing_store[run.returned_key] = "normalized"

\* The store is left alone and the save task is submitted once with the key
\* the run was given.
SavedUnderOriginalKey ==
  /\ StoreWrites = {}
  /\ event_processing_store = run.store_before
  /\ Cardinality(SavesBy("do_process_event")) = 1
  /\ \A j \in SavesBy("do_process_event") : run.effects[j].cache_key = run.cache_key

\* C24 (single next stage): every run of _do_preprocess_event that finds
\* event data submits exactly one follow-up task, symbolicate, process or
\* save; a run that finds no data submits no task at all.
C24_SingleNextStage ==
  Preprocessed =>
    LET submitted == EffectsOf("submit", "_do_preprocess_event")
    IN IF run.found
       THEN /\ Cardinality(submitted) = 1
            /\ \A i \in submitted :
                 run.effects[i].task \in {"symbolicate", "process", "save"}
       ELSE run.effects = <<>>

\* A run that found the event under its cache key and submitted it to
\* symbolicate.
C24_Witness ==
  /\ run.op = "_do_preprocess_event"
  /\ ~run.data_given /\ run.found
  /\ \E i \in EffectsOf("submit", "_do_preprocess_event") :
       run.effects[i].task = "symbolicate"

\* C25 (events considered for symbolication always go through processing):
\* whenever _do_preprocess_event finds a symbolication platform, the event
\* is submitted to symbolicate or, when the load-shed killswitch matches,
\* to process, never directly to save, and the unprocessed event is backed
\* up before the symbolicate task is submitted.
C25_SymbolicationGoesThroughProcessing ==
  (Preprocessed /\ run.found /\ run.platforms > 0) =>
    /\ EffectsOf("submit", "_do_preprocess_event") # {}
    /\ \A i \in EffectsOf("submit", "_do_preprocess_event") :
         /\ run.effects[i].task = IF run.killswitch THEN "process" ELSE "symbolicate"
         /\ run.effects[i].task = "symbolicate" =>
              \E j \in EffectsOf("backup_unprocessed_event", "_do_preprocess_event") : j < i

\* A run with a symbolication platform whose killswitch matched: the event
\* went to process.
C25_Witness ==
  /\ run.op = "_do_preprocess_event"
  /\ run.found /\ run.platforms > 0 /\ run.killswitch
  /\ \E i \in EffectsOf("submit", "_do_preprocess_event") :
       run.effects[i].task = "process"

\* C26 as claimed (store before save): in do_process_event, if the event
\* was changed and no failed event is created, the re-normalized event is
\* written to the processing store before the save task is submitted and
\* the save task receives the cache key returned by that write; if the
\* event was not changed, the store is not written and the save task
\* receives the original cache key.
C26_StoreBeforeSave ==
  Processed =>
    /\ (EventChanged /\ run.failed # "true") => StoredThenSaved
    /\ ~EventChanged => SavedUnderOriginalKey

\* C26 (store before save), amended: the same for the runs in which
\* processing is not load-shed and create_failed_event does not ask for a
\* retry; a load-shed run leaves the store alone and submits the save
\* task with the original cache key, changed or not.
C26_StoreBeforeSaveUnlessShed ==
  Processed =>
    /\ (EventChanged /\ ~run.disabled /\ run.failed \notin {"true", "retry"})
         => StoredThenSaved
    /\ (~EventChanged \/ run.disabled) => SavedUnderOriginalKey

\* A run whose event a plugin changed: the store returned another key than
\* the run was given, and the save task got that key.
C26_Witness ==
  /\ Processed /\ run.changed_by = "plugin" /\ ~run.data_has_changed
  /\ run.returned_key # run.cache_key
  /\ StoredThenSaved

C28_FailedEventNeverSaved ==
  (Processed /\ run.failed = "true") =>
    /\ StoreWrites = {}
    /\ \A i \in 1..Len(run.effects) : run.effects[i].op # "submit"
    /\ \A k \in CacheKeys : event_processing_store[k] # "normalized"
                              \/ run.store_before[k] = "normalized"
    /\ run.supports /\ ~run.reprocessed /\ run.before.reprocessing_active

\* A failed event was created: the raw event is written and the cache key
\* is gone from the store.
C28_Witness ==
  /\ Processed /\ run.failed = "true"
  /\ EffectsOf("create_raw_event", "create_failed_event") # {}
  /\ event_processing_store[run.cache_key] = "null"

\* C29 (retry has no side effects): create_failed_event raises
\* RetryProcessing exactly when the event supports reprocessing, is not an
\* already reprocessed event, reprocessing is active and the current
\* revision differs from the one read at the start of processing; when it
\* raises, it has created no Activity, changed no project option, created
\* or deleted no RawEvent or ReprocessingReport, and left the cache key in
\* the processing store.
C29_RetryHasNoSideEffects ==
  (Processed /\ run.failed # "not called") =>
    /\ run.failed = "retry" <=>
         (/\ run.supports /\ ~run.reprocessed /\ run.before.reprocessing_active
          /\ db.revision # run.before.revision)
    /\ run.failed = "retry" =>
         /\ \A i \in 1..Len(run.effects) :
              run.effects[i].by \notin {"create_failed_event", "delete_raw_event"}
         /\ db.activities = run.before.activities
         /\ db.sent_failed_event_hint = run.before.sent_failed_event_hint
         /\ db.reprocessing_active = run.before.reprocessing_active
         /\ event_processing_store[run.cache_key] = run.store_before[run.cache_key]
         /\ event_processing_store[run.cache_key] # "null"

\* A retry while the hint was not set: no notification went out.
C29_Witness ==
  /\ Processed /\ run.failed = "retry"
  /\ run.before.sent_failed_event_hint # "true"
  /\ db.activities = 0

\* C30 (one notification per cleared hint): across any number of
\* create_failed_event calls for one project, calls that run concurrently
\* in different workers included, as long as the hint is not cleared
\* again at most one NEW_PROCESSING_ISSUES activity is created.
C30_OneNotificationPerClearedHint ==
  db.since_clear <= 1

\* C35 (default rule sets are consistent with base merging): for every
\* registered enhancements id, the registry entry and the rule set built
\* from empty rule text with that id as its only base have the same
\* base64_string, so the consistency check inside
\* get_default_enhancements never trips and the call returns the
\* registry entry.
C35_DefaultsConsistent ==
  call.op = "get_default_enhancements" =>
    /\ ~call.breakpoint
    /\ \A id \in RegisteredIds :
         base64_string(ENHANCEMENT_BASES[id])
           = base64_string(from_rules_text(<<>>, <<id>>, "null", 0, ENHANCEMENT_BASES))
    /\ ret_enh = ENHANCEMENT_BASES[call.bases[1]]

\* C36 (kept profiling rules are well-formed rules): every line in the
\* output of keep_profiling_rules consists of at least one matcher token
\* followed by exactly one action token.
C36_KeptRulesWellFormed ==
  profiling.called =>
    \A i \in 1..Len(profiling.ret) :
      LET line == profiling.ret[i]
      IN /\ Len(line) >= 2
         /\ \A j \in 1..(Len(line) - 1) : line[j] \in ProfilingMatcherTokens
         /\ line[Len(line)] \in VALID_PROFILING_ACTIONS_SET

\* The tasks a run has submitted.
Submitted == SelectSeq(run.effects, LAMBDA e : e.op = "submit")

\* C34 (has_attachments is carried through the pipeline): for an event that
\* enters preprocessing or processing with has_attachments = true, every
\* later stage submitted for it (symbolicate, process, save) is submitted
\* with has_attachments = true, on every path, the restart after
\* RetryProcessing and the reprocessing entry point included.
C34_AttachmentsCarried ==
  run.has_attachments =>
    \A i \in 1..Len(Submitted) : Submitted[i].has_attachments

\* A run of _do_save_event.
Saving == run.op = "_do_save_event"

\* C31 (hint is cleared after successful reprocessing): when
\* delete_raw_event runs for an event with an event_id in a project where
\* reprocessing is active and sentry:sent_failed_event_hint is set, and the
\* event had a reprocessing report that this call deletes, the hint is
\* false when the call returns.
C31_HintClearedAfterReprocessing ==
  (/\ Saving
   /\ EffectsOf("delete_reprocessing_report", "delete_raw_event") # {}
   /\ run.before.reprocessing_active
   /\ run.before.sent_failed_event_hint = "true"
   /\ run.had_report)
  => db.sent_failed_event_hint = "false"

\* C32 (cleanup when the payload is gone): whenever _do_save_event finds no
\* event data (a cache miss or an empty dictionary), for every combination
\* of cache_key, event_id and project_id it deletes the raw event and the
\* reprocessing reports of the event and then returns, without a call of
\* EventManager.save and without a write to the processing store.
C32_CleanupWhenPayloadGone ==
  (Saving /\ run.data # "event") =>
    /\ run.exc = "none"
    /\ EffectsOf("delete_raw_event", "delete_raw_event") # {}
    /\ EffectsOf("delete_reprocessing_report", "delete_raw_event") # {}
    /\ EffectsOf("save", "_do_save_event") = {}
    /\ EffectsOf("store", "_do_save_event") = {}
    /\ event_processing_store = run.store_before

\* C33 (attachment cache is always released): every run of _do_save_event
\* called with a cache_key and has_attachments = true deletes the
\* attachment cache entry of that key before it ends, on every exit path:
\* a successful save, HashDiscarded (load shedding included), another
\* exception raised by save, and missing event data.
C33_AttachmentCacheReleased ==
  (Saving /\ run.cache_key # 0 /\ run.has_attachments) =>
    \E i \in EffectsOf("attachment_cache_delete", "_do_save_event") :
      run.effects[i].cache_key = run.cache_key

====
